---------------------------- MODULE Spec2Model ----------------------------
(***************************************************************************)
(* A model of the Chessembly move-script interpreter                       *)
(* (src/rust/chessembly/src/lib.rs, Interpreter::execute).                 *)
(*                                                                         *)
(* One behaviour is one call of execute on one parsed token stream and one *)
(* board snapshot: the label prepass, then one step per iteration of the   *)
(* main loop (either the chain skip or the dispatch of the fetched token), *)
(* then the return of the activation list.                                 *)
(***************************************************************************)
EXTENDS Integers, Sequences, FiniteSets, TLC

\* ------------------------------------------------------------------ bounds
\* Longest script of the exhaustively enumerated script families.
MaxLen == 4
\* Side of the small square boards of the enumerated families.
BoardN == 3
\* Loop iterations of execute that one behaviour follows (a dispatch budget:
\* scripts such as `anchor(1,0) repeat(1)` never end).
MaxSteps == 14
\* Calls of execute on one interpreter and snapshot.
MaxCalls == 2
\* Loop iterations followed when execute runs a built-in script for the
\* move generator (the longest of the modelled scripts needs fewer).
MaxEngineSteps == 150
\* Calls a host makes on one GameState with the broad inputs.
MaxOps == 2
\* Calls a host makes on one GameState with the inputs of a played game.
MaxPlies == 3
\* Arguments written in the argument list of one statement handed to parse.
MaxArgs == 3
\* pub const MAX_POCKET_SCORE (engine, line 423).
MAX_POCKET_SCORE == 39
\* Largest |dx|, |dy| of the slide directions.
MaxDir == 2
\* Pieces that stand near the piece whose built-in script is run.
MaxBlockers == 2
\* Calls the hosts of a match make on its GameState.
MaxMoves == 3

\* ------------------------------------------------------- Option<T> values
None == << >>
Some(v) == << v >>
IsSome(o) == o # None
Unwrap(o) == o[1]

\* ------------------------------------------------------------------ tokens
\* enum Token: kind k, integer operands x and y, string operand s.
Tok(k, x, y, s) == [k |-> k, x |-> x, y |-> y, s |-> s]
TakeMove(dx, dy) == Tok("TakeMove", dx, dy, "")
Move(dx, dy) == Tok("Move", dx, dy, "")
Take(dx, dy) == Tok("Take", dx, dy, "")
Catch(dx, dy) == Tok("Catch", dx, dy, "")
Shift(dx, dy) == Tok("Shift", dx, dy, "")
Jump(dx, dy) == Tok("Jump", dx, dy, "")
Anchor(dx, dy) == Tok("Anchor", dx, dy, "")
Observe(dx, dy) == Tok("Observe", dx, dy, "")
Peek(dx, dy) == Tok("Peek", dx, dy, "")
Enemy(dx, dy) == Tok("Enemy", dx, dy, "")
Friendly(dx, dy) == Tok("Friendly", dx, dy, "")
Piece(name) == Tok("Piece", 0, 0, name)
IfState(key, v) == Tok("IfState", v, 0, key)
SetState(key, v) == Tok("SetState", v, 0, key)
SetStateReset == Tok("SetStateReset", 0, 0, "")
Transition(name) == Tok("Transition", 0, 0, name)
Repeat(n) == Tok("Repeat", n, 0, "")
Do == Tok("Do", 0, 0, "")
While == Tok("While", 0, 0, "")
Jmp(l) == Tok("Jmp", 0, 0, l)
Jne(l) == Tok("Jne", 0, 0, l)
Label(l) == Tok("Label", 0, 0, l)
Not == Tok("Not", 0, 0, "")
End == Tok("End", 0, 0, "")
OpenBrace == Tok("OpenBrace", 0, 0, "")
CloseBrace == Tok("CloseBrace", 0, 0, "")
Semicolon == Tok("Semicolon", 0, 0, "")

\* The predicates that only write last_value.
PredicateKinds ==
    {"Observe", "Enemy", "Friendly", "PieceOn", "Danger", "Check", "Bound",
     "Edge", "EdgeTop", "EdgeBottom", "EdgeLeft", "EdgeRight", "Corner",
     "CornerTopLeft", "CornerTopRight", "CornerBottomLeft",
     "CornerBottomRight", "Piece", "IfState"}

\* ------------------------------------------------------------- BoardState
\* pieces: a function from the occupied squares <<x, y>> to
\* [name, is_white]; state: a function from the keys present to integers.
EmptyMap == [z \in {} |-> 0]
MapWith(m, key, v) ==
    [z \in DOMAIN m \cup {key} |-> IF z = key THEN v ELSE m[z]]
MkBoard(w, h, px, py, name, white, pieces, state, danger, check) ==
    [board_width |-> w, board_height |-> h, piece_x |-> px, piece_y |-> py,
     piece_name |-> name, is_white |-> white, pieces |-> pieces,
     state |-> state, danger_squares |-> danger, in_check |-> check]

in_bounds(b, x, y) ==
    x >= 0 /\ x < b.board_width /\ y >= 0 /\ y < b.board_height
is_empty(b, x, y) == in_bounds(b, x, y) /\ <<x, y>> \notin DOMAIN b.pieces
has_enemy(b, x, y) ==
    <<x, y>> \in DOMAIN b.pieces /\ b.pieces[<<x, y>>].is_white # b.is_white
has_friendly(b, x, y) ==
    <<x, y>> \in DOMAIN b.pieces /\ b.pieces[<<x, y>>].is_white = b.is_white
has_piece(b, x, y, piece_name) ==
    <<x, y>> \in DOMAIN b.pieces /\ b.pieces[<<x, y>>].name = piece_name

\* ------------------------------------------------- Activation, ActionTag
Activation(dx, dy, move_type, tags, catch_to) ==
    [dx |-> dx, dy |-> dy, move_type |-> move_type, tags |-> tags,
     catch_to |-> catch_to]
SetStateTag(key, value) ==
    [tag_type |-> "SetState", key |-> key, value |-> value,
     piece_name |-> None]
TransitionTag(piece_name) ==
    [tag_type |-> "Transition", key |-> "", value |-> 0,
     piece_name |-> Some(piece_name)]

\* ------------------------------------------------- execute: local state
\* The locals of execute as one record; pc is already past the fetched token
\* when a token is dispatched (line 518).
StartState ==
    [pc |-> 0, index_of_expression_chain |-> 0, num_of_open_brace |-> 0,
     anchor_x |-> 0, anchor_y |-> 0, last_value |-> TRUE,
     pending_tags |-> << >>, do_index |-> None, scope_stack |-> << >>,
     last_take_pos |-> None, activations |-> << >>, panicked |-> FALSE]

Front(q) == SubSeq(q, 1, Len(q) - 1)
Last(q) == q[Len(q)]

\* Label prepass (lines 487-508): labels[<<chain, name>>] is the index of the
\* token after the label; a later label of the same name in the same chain
\* overwrites an earlier one (HashMap::insert).
RECURSIVE ScanLabels(_, _, _, _)
ScanLabels(toks, p, chain, tab) ==
    IF p >= Len(toks) THEN tab
    ELSE LET t == toks[p + 1] IN
         CASE t.k = "Semicolon" -> ScanLabels(toks, p + 1, chain + 1, tab)
           [] t.k = "Label" ->
                ScanLabels(toks, p + 1, chain,
                           MapWith(tab, <<chain, t.s>>, p + 1))
           [] OTHER -> ScanLabels(toks, p + 1, chain, tab)
LabelTable(toks) == ScanLabels(toks, 0, 0, EmptyMap)

\* An exception set without `not`.
IsException_NoNot(t) ==
    t.k \in {"While", "Jmp", "Jne", "Label", "Semicolon", "CloseBrace"}
\* The tokens that are dispatched although last_value is false.
IsException(t) ==
    t.k \in {"While", "Jmp", "Jne", "Not", "Label", "Semicolon", "CloseBrace"}
should_terminate(s, t) == ~s.last_value /\ ~IsException(t)

\* SkipLoop without the count of the `{` passed: every `}` ends the skip.
RECURSIVE SkipLoop_NoDepth(_, _)
SkipLoop_NoDepth(toks, s) ==
    IF s.pc >= Len(toks) THEN s
    ELSE LET t == toks[s.pc + 1] IN
         CASE t.k = "Semicolon" ->
                [s EXCEPT !.anchor_x = 0, !.anchor_y = 0,
                          !.pending_tags = << >>, !.do_index = None,
                          !.last_take_pos = None, !.pc = @ + 1,
                          !.index_of_expression_chain = @ + 1]
           [] t.k = "CloseBrace" ->
                IF s.scope_stack # << >>
                THEN [s EXCEPT !.anchor_x = Last(s.scope_stack)[1],
                               !.anchor_y = Last(s.scope_stack)[2],
                               !.scope_stack = Front(@), !.pc = @ + 1]
                ELSE [s EXCEPT !.pc = @ + 1]
           [] OTHER -> SkipLoop_NoDepth(toks, [s EXCEPT !.pc = @ + 1])

\* The chain skip's inner loop (lines 528-562), from the token after the
\* fetched one: to the next `;` (chain reset) or to a `}` met with
\* num_of_open_brace = 0 (scope restore).
RECURSIVE SkipLoop(_, _)
SkipLoop(toks, s) ==
    IF s.pc >= Len(toks) THEN s
    ELSE LET t == toks[s.pc + 1] IN
         CASE t.k = "Semicolon" ->
                [s EXCEPT !.anchor_x = 0, !.anchor_y = 0,
                          !.pending_tags = << >>, !.do_index = None,
                          !.last_take_pos = None, !.pc = @ + 1,
                          !.index_of_expression_chain = @ + 1]
           [] t.k = "CloseBrace" ->
                IF s.num_of_open_brace > 0
                THEN SkipLoop(toks, [s EXCEPT !.num_of_open_brace = @ - 1,
                                              !.pc = @ + 1])
                ELSE IF s.scope_stack # << >>
                THEN [s EXCEPT !.anchor_x = Last(s.scope_stack)[1],
                               !.anchor_y = Last(s.scope_stack)[2],
                               !.scope_stack = Front(@), !.pc = @ + 1]
                ELSE [s EXCEPT !.pc = @ + 1]
           [] t.k = "OpenBrace" ->
                SkipLoop(toks, [s EXCEPT !.num_of_open_brace = @ + 1,
                                         !.pc = @ + 1])
           [] OTHER -> SkipLoop(toks, [s EXCEPT !.pc = @ + 1])
\* The whole should_terminate branch (lines 526-565).
ExecSkip(toks, s) == [SkipLoop(toks, s) EXCEPT !.last_value = TRUE]

\* A chain reset that forgets the anchor.
ExecSemicolon_KeepAnchor(s) ==
    [s EXCEPT !.last_value = TRUE, !.pending_tags = << >>,
              !.do_index = None, !.last_take_pos = None,
              !.index_of_expression_chain = @ + 1]
\* A chain reset that forgets the pending tags.
ExecSemicolon_KeepTags(s) ==
    [s EXCEPT !.anchor_x = 0, !.anchor_y = 0, !.last_value = TRUE,
              !.do_index = None, !.last_take_pos = None,
              !.index_of_expression_chain = @ + 1]
\* Token::Semicolon (lines 568-577).
ExecSemicolon(s) ==
    [s EXCEPT !.anchor_x = 0, !.anchor_y = 0, !.last_value = TRUE,
              !.pending_tags = << >>, !.do_index = None,
              !.last_take_pos = None, !.index_of_expression_chain = @ + 1]
\* Token::OpenBrace (lines 579-583).
ExecOpenBrace(s) ==
    [s EXCEPT !.scope_stack = Append(@, <<s.anchor_x, s.anchor_y, s.pc>>),
              !.last_value = TRUE]
\* Token::CloseBrace (lines 585-592).
ExecCloseBrace(s) ==
    IF s.scope_stack # << >>
    THEN [s EXCEPT !.anchor_x = Last(s.scope_stack)[1],
                   !.anchor_y = Last(s.scope_stack)[2],
                   !.scope_stack = Front(@), !.last_value = TRUE]
    ELSE [s EXCEPT !.last_value = TRUE]

\* ------------------------------------------------------ move operators
target_x(s, b, dx) == b.piece_x + s.anchor_x + dx
target_y(s, b, dy) == b.piece_y + s.anchor_y + dy
\* add_activation of a move of the given type at anchor + (dx, dy).
Emit(s, dx, dy, move_type, catch_to) ==
    Append(s.activations,
           Activation(s.anchor_x + dx, s.anchor_y + dy, move_type,
                      s.pending_tags, catch_to))
Advance(s, dx, dy) == [s EXCEPT !.anchor_x = @ + dx, !.anchor_y = @ + dy]

\* A take-move after whose capture the chain goes on.
ExecTakeMove_CaptureGoesOn(s, b, dx, dy) ==
    IF ~in_bounds(b, target_x(s, b, dx), target_y(s, b, dy))
       \/ has_friendly(b, target_x(s, b, dx), target_y(s, b, dy))
    THEN [s EXCEPT !.last_value = FALSE]
    ELSE [Advance(s, dx, dy) EXCEPT
             !.activations = Emit(s, dx, dy, "TakeMove", None),
             !.last_value = TRUE]
\* Token::TakeMove (lines 595-624).
ExecTakeMove(s, b, dx, dy) ==
    LET tx == target_x(s, b, dx)
        ty == target_y(s, b, dy)
    IN  IF ~in_bounds(b, tx, ty) \/ has_friendly(b, tx, ty)
        THEN [s EXCEPT !.last_value = FALSE]
        ELSE IF has_enemy(b, tx, ty)
        THEN [Advance(s, dx, dy) EXCEPT
                 !.activations = Emit(s, dx, dy, "TakeMove", None),
                 !.last_value = FALSE]
        ELSE [Advance(s, dx, dy) EXCEPT
                 !.activations = Emit(s, dx, dy, "TakeMove", None),
                 !.last_value = TRUE]
\* A move that also steps onto an enemy piece.
ExecMove_OntoEnemy(s, b, dx, dy) ==
    IF in_bounds(b, target_x(s, b, dx), target_y(s, b, dy))
       /\ ~has_friendly(b, target_x(s, b, dx), target_y(s, b, dy))
    THEN [Advance(s, dx, dy) EXCEPT
             !.activations = Emit(s, dx, dy, "Move", None),
             !.last_value = TRUE]
    ELSE [s EXCEPT !.last_value = FALSE]
\* Token::Move (lines 626-644).
ExecMove(s, b, dx, dy) ==
    IF is_empty(b, target_x(s, b, dx), target_y(s, b, dy))
    THEN [Advance(s, dx, dy) EXCEPT
             !.activations = Emit(s, dx, dy, "Move", None),
             !.last_value = TRUE]
    ELSE [s EXCEPT !.last_value = FALSE]
\* A take that stays where it is when it finds the square empty.
ExecTake_StayOnEmpty(s, b, dx, dy) ==
    IF has_enemy(b, target_x(s, b, dx), target_y(s, b, dy))
    THEN [Advance(s, dx, dy) EXCEPT
             !.last_take_pos = Some(<<s.anchor_x + dx, s.anchor_y + dy>>),
             !.activations = Emit(s, dx, dy, "Take", None),
             !.last_value = TRUE]
    ELSE IF in_bounds(b, target_x(s, b, dx), target_y(s, b, dy))
            /\ ~has_friendly(b, target_x(s, b, dx), target_y(s, b, dy))
    THEN [s EXCEPT !.last_value = TRUE]
    ELSE [s EXCEPT !.last_value = FALSE]
\* Token::Take (lines 646-673).
ExecTake(s, b, dx, dy) ==
    LET tx == target_x(s, b, dx)
        ty == target_y(s, b, dy)
    IN  IF has_enemy(b, tx, ty)
        THEN [Advance(s, dx, dy) EXCEPT
                 !.last_take_pos = Some(<<s.anchor_x + dx, s.anchor_y + dy>>),
                 !.activations = Emit(s, dx, dy, "Take", None),
                 !.last_value = TRUE]
        ELSE IF in_bounds(b, tx, ty) /\ ~has_friendly(b, tx, ty)
        THEN [Advance(s, dx, dy) EXCEPT !.last_value = TRUE]
        ELSE [s EXCEPT !.last_value = FALSE]
\* Token::Jump (lines 675-703). activations.last().unwrap() panics on an
\* empty list; a trailing Take is popped before last_take_pos and the target
\* are looked at.
ExecJump(s, b, dx, dy) ==
    IF s.activations = << >> THEN [s EXCEPT !.panicked = TRUE]
    ELSE LET popped ==
                 IF Last(s.activations).move_type = "Take"
                 THEN [s EXCEPT !.activations = Front(@)]
                 ELSE s
         IN  IF IsSome(s.last_take_pos)
                /\ is_empty(b, target_x(s, b, dx), target_y(s, b, dy))
             THEN [Advance(popped, dx, dy) EXCEPT
                      !.activations =
                          Emit(popped, dx, dy, "Jump", s.last_take_pos),
                      !.last_value = TRUE]
             ELSE [popped EXCEPT !.last_value = FALSE]
\* Token::Catch (lines 705-722).
ExecCatch(s, b, dx, dy) ==
    IF has_enemy(b, target_x(s, b, dx), target_y(s, b, dy))
    THEN [s EXCEPT !.activations = Emit(s, dx, dy, "Catch", None),
                   !.last_value = TRUE]
    ELSE [s EXCEPT !.last_value = FALSE]
\* Token::Shift (lines 724-742).
ExecShift(s, b, dx, dy) ==
    LET tx == target_x(s, b, dx)
        ty == target_y(s, b, dy)
    IN  IF in_bounds(b, tx, ty) /\ ~is_empty(b, tx, ty)
        THEN [Advance(s, dx, dy) EXCEPT
                 !.activations = Emit(s, dx, dy, "Shift", None),
                 !.last_value = TRUE]
        ELSE [s EXCEPT !.last_value = FALSE]
\* Token::Anchor (lines 744-748).
ExecAnchor(s, dx, dy) == [Advance(s, dx, dy) EXCEPT !.last_value = TRUE]

\* ------------------------------------------------------------ predicates
\* The value the predicate tokens write to last_value (lines 751-756 and
\* 774-875); none of them moves the anchor.
PredValue(s, b, t) ==
    LET tx == target_x(s, b, t.x)
        ty == target_y(s, b, t.y)
    IN  CASE t.k = "Observe" -> is_empty(b, tx, ty)
          [] t.k = "Enemy" -> has_enemy(b, tx, ty)
          [] t.k = "Friendly" -> has_friendly(b, tx, ty)
          [] t.k = "PieceOn" -> has_piece(b, tx, ty, t.s)
          [] t.k = "Danger" -> <<tx, ty>> \in b.danger_squares
          [] t.k = "Check" -> b.in_check
          [] t.k = "Bound" -> ~in_bounds(b, tx, ty)
          [] t.k = "Edge" ->
               tx < 0 \/ tx >= b.board_width \/ ty < 0 \/ ty >= b.board_height
          [] t.k = "EdgeTop" -> ty >= b.board_height
          [] t.k = "EdgeBottom" -> ty < 0
          [] t.k = "EdgeLeft" -> tx < 0
          [] t.k = "EdgeRight" -> tx >= b.board_width
          [] t.k = "Corner" ->
               /\ (tx < 0 \/ tx >= b.board_width)
               /\ (ty < 0 \/ ty >= b.board_height)
          [] t.k = "CornerTopLeft" -> tx < 0 /\ ty >= b.board_height
          [] t.k = "CornerTopRight" ->
               tx >= b.board_width /\ ty >= b.board_height
          [] t.k = "CornerBottomLeft" -> tx < 0 /\ ty < 0
          [] t.k = "CornerBottomRight" -> tx >= b.board_width /\ ty < 0
          [] t.k = "Piece" -> b.piece_name = t.s
          [] t.k = "IfState" ->
               (IF t.s \in DOMAIN b.state THEN b.state[t.s] ELSE 0) = t.x
          [] OTHER -> FALSE
ExecPredicate(s, b, t) == [s EXCEPT !.last_value = PredValue(s, b, t)]
\* A peek that looks at the square and leaves the anchor where it is.
ExecPeek_Stays(s, b, dx, dy) ==
    [s EXCEPT
        !.last_value = is_empty(b, target_x(s, b, dx), target_y(s, b, dy))]
\* Token::Peek (lines 758-772): the anchor advances on both branches.
ExecPeek(s, b, dx, dy) ==
    [Advance(s, dx, dy) EXCEPT
        !.last_value = is_empty(b, target_x(s, b, dx), target_y(s, b, dy))]

\* ------------------------------------------------------------- action tags
\* Token::SetState (lines 877-885).
ExecSetState(s, key, value) ==
    [s EXCEPT !.pending_tags = Append(@, SetStateTag(key, value)),
              !.last_value = TRUE]
\* A set-state-reset that drops every pending tag.
ExecSetStateReset_Clear(s) ==
    [s EXCEPT !.pending_tags = << >>, !.last_value = TRUE]
\* Token::SetStateReset (lines 887-890): Vec::pop, nothing on an empty list.
ExecSetStateReset(s) ==
    [s EXCEPT !.pending_tags = IF @ = << >> THEN @ ELSE Front(@),
              !.last_value = TRUE]
\* Token::Transition (lines 892-900).
ExecTransition(s, piece_name) ==
    [s EXCEPT !.pending_tags = Append(@, TransitionTag(piece_name)),
              !.last_value = TRUE]

\* ----------------------------------------------------------------- control
\* Token::Repeat (lines 903-911).
ExecRepeat(s, n) ==
    IF s.last_value /\ n > 0
    THEN [s EXCEPT !.pc = IF s.pc > n THEN s.pc - n - 1 ELSE 0]
    ELSE s
\* Token::Do (lines 913-919).
ExecDo(s) == IF s.last_value THEN [s EXCEPT !.do_index = Some(s.pc)] ELSE s
\* A while that jumps back whatever last_value is.
ExecWhile_IgnoreValue(s) ==
    IF IsSome(s.do_index)
    THEN [s EXCEPT !.pc = Unwrap(s.do_index), !.last_value = TRUE]
    ELSE [s EXCEPT !.last_value = TRUE]
\* Token::While (lines 921-929).
ExecWhile(s) ==
    IF s.last_value /\ IsSome(s.do_index)
    THEN [s EXCEPT !.pc = Unwrap(s.do_index), !.last_value = TRUE]
    ELSE [s EXCEPT !.last_value = TRUE]
\* The label lookup of jmp and jne (lines 934, 943): under the running chain
\* counter; expect("REASON") panics when the label is missing.
JumpTo(s, labs, l) ==
    IF <<s.index_of_expression_chain, l>> \in DOMAIN labs
    THEN [s EXCEPT !.pc = labs[<<s.index_of_expression_chain, l>>],
                   !.last_value = TRUE]
    ELSE [s EXCEPT !.panicked = TRUE]
\* Token::Jmp (lines 931-938).
ExecJmp(s, labs, l) ==
    IF s.last_value THEN JumpTo(s, labs, l) ELSE [s EXCEPT !.last_value = TRUE]
\* A jne that jumps when last_value is true.
ExecJne_WhenTrue(s, labs, l) ==
    IF s.last_value THEN JumpTo(s, labs, l) ELSE [s EXCEPT !.last_value = TRUE]
\* Token::Jne (lines 940-947).
ExecJne(s, labs, l) ==
    IF ~s.last_value THEN JumpTo(s, labs, l)
    ELSE [s EXCEPT !.last_value = TRUE]
\* Token::Label (lines 949-951).
ExecLabel(s) == s
\* Token::Not (lines 953-956).
ExecNot(s) == [s EXCEPT !.last_value = ~s.last_value]
\* Token::End (lines 958-960).
ExecEnd(s) == [s EXCEPT !.last_value = FALSE]

\* ------------------------------------------------------------ main loop
\* One iteration of the main loop (lines 510-962) from the locals s: the
\* token is fetched, then either the rest of the chain is skipped (lines
\* 521-565) or the token's arm is run (lines 567-961).
Iteration(toks, b, labs, s) ==
    LET t == toks[s.pc + 1]
        f == [s EXCEPT !.pc = @ + 1]
    IN  IF should_terminate(s, t) THEN ExecSkip(toks, f)
        ELSE CASE t.k = "Semicolon" -> ExecSemicolon(f)
               [] t.k = "OpenBrace" -> ExecOpenBrace(f)
               [] t.k = "CloseBrace" -> ExecCloseBrace(f)
               [] t.k = "TakeMove" -> ExecTakeMove(f, b, t.x, t.y)
               [] t.k = "Move" -> ExecMove(f, b, t.x, t.y)
               [] t.k = "Take" -> ExecTake(f, b, t.x, t.y)
               [] t.k = "Jump" -> ExecJump(f, b, t.x, t.y)
               [] t.k = "Catch" -> ExecCatch(f, b, t.x, t.y)
               [] t.k = "Shift" -> ExecShift(f, b, t.x, t.y)
               [] t.k = "Anchor" -> ExecAnchor(f, t.x, t.y)
               [] t.k \in PredicateKinds -> ExecPredicate(f, b, t)
               [] t.k = "Peek" -> ExecPeek(f, b, t.x, t.y)
               [] t.k = "SetState" -> ExecSetState(f, t.s, t.x)
               [] t.k = "SetStateReset" -> ExecSetStateReset(f)
               [] t.k = "Transition" -> ExecTransition(f, t.s)
               [] t.k = "Repeat" -> ExecRepeat(f, t.x)
               [] t.k = "Do" -> ExecDo(f)
               [] t.k = "While" -> ExecWhile(f)
               [] t.k = "Jmp" -> ExecJmp(f, labs, t.s)
               [] t.k = "Jne" -> ExecJne(f, labs, t.s)
               [] t.k = "Label" -> ExecLabel(f)
               [] t.k = "Not" -> ExecNot(f)
               [] t.k = "End" -> ExecEnd(f)

\* ----------------------------------------------------- engine: game state
\* The value of `game` when a script is executed without a game.
NoGame == [board |-> EmptyMap]
\* Square (engine, lines 17-53) is a pair <<x, y>>.
is_valid(sq) == sq[1] >= 0 /\ sq[1] < 8 /\ sq[2] >= 0 /\ sq[2] < 8
\* Piece::new (engine, lines 309-320); pos and disguise are Options.
NewPiece(id, kind, owner) ==
    [id |-> id, kind |-> kind, owner |-> owner, pos |-> None, stun |-> 0,
     move_stack |-> 0, is_royal |-> FALSE, disguise |-> None]
effective_kind(p) == IF IsSome(p.disguise) THEN Unwrap(p.disguise) ELSE p.kind
can_move(p) == p.stun = 0 /\ p.move_stack > 0
is_white(p) == p.owner = 0

\* The token streams parse leaves for the built-in scripts of
\* PieceKind::chessembly_script (engine, lines 156-294).
chessembly_script(kind, white) ==
    LET Leap(dx, dy) == <<TakeMove(dx, dy), Semicolon>>
        Slide(dx, dy) == <<TakeMove(dx, dy), Repeat(1), Semicolon>>
        Hop(dx, dy) == <<Do, Peek(dx, dy), While, TakeMove(dx, dy), Semicolon>>
        Tempest(dx, dy) ==
            <<TakeMove(dx, dy),
              OpenBrace, TakeMove(dx, 0), Repeat(1), CloseBrace,
              OpenBrace, TakeMove(0, dy), Repeat(1), CloseBrace, Semicolon>>
        CannonTake(dx, dy) ==
            <<Do, Take(dx, dy), Enemy(0, 0), Not, While, Jump(dx, dy),
              Repeat(1), Semicolon>>
        CannonMove(dx, dy) ==
            <<Do, Peek(dx, dy), While, Friendly(0, 0), Move(dx, dy),
              Repeat(1), Semicolon>>
        KingLeaps ==
            Leap(1, 0) \o Leap(-1, 0) \o Leap(0, 1) \o Leap(0, -1)
            \o Leap(1, 1) \o Leap(1, -1) \o Leap(-1, 1) \o Leap(-1, -1)
        KnightLeaps ==
            Leap(1, 2) \o Leap(2, 1) \o Leap(2, -1) \o Leap(1, -2)
            \o Leap(-1, 2) \o Leap(-2, 1) \o Leap(-2, -1) \o Leap(-1, -2)
        RookSlides ==
            Slide(1, 0) \o Slide(-1, 0) \o Slide(0, 1) \o Slide(0, -1)
        BishopSlides ==
            Slide(1, 1) \o Slide(1, -1) \o Slide(-1, 1) \o Slide(-1, -1)
    IN
    CASE kind = "Pawn" ->
           IF white
           THEN <<Move(0, 1), Semicolon, Take(1, 1), Semicolon,
                  Take(-1, 1), Semicolon>>
           ELSE <<Move(0, -1), Semicolon, Take(1, -1), Semicolon,
                  Take(-1, -1), Semicolon>>
      [] kind = "King" -> KingLeaps
      [] kind = "Queen" -> RookSlides \o BishopSlides
      [] kind = "Rook" -> RookSlides
      [] kind = "Knight" -> KnightLeaps
      [] kind = "Bishop" -> BishopSlides
      [] kind = "Amazon" -> RookSlides \o BishopSlides \o KnightLeaps
      [] kind = "Grasshopper" ->
           Hop(1, 0) \o Hop(-1, 0) \o Hop(0, 1) \o Hop(0, -1)
           \o Hop(1, 1) \o Hop(1, -1) \o Hop(-1, 1) \o Hop(-1, -1)
      [] kind = "Knightrider" ->
           Slide(1, 2) \o Slide(2, 1) \o Slide(2, -1) \o Slide(1, -2)
           \o Slide(-1, 2) \o Slide(-2, 1) \o Slide(-2, -1) \o Slide(-1, -2)
      [] kind = "Archbishop" -> BishopSlides \o KnightLeaps
      [] kind = "Dabbaba" ->
           Leap(2, 0) \o Leap(-2, 0) \o Leap(0, 2) \o Leap(0, -2)
      [] kind = "Alfil" ->
           Leap(2, 2) \o Leap(2, -2) \o Leap(-2, 2) \o Leap(-2, -2)
      [] kind = "Ferz" ->
           Leap(1, 1) \o Leap(1, -1) \o Leap(-1, 1) \o Leap(-1, -1)
      [] kind = "Centaur" -> KingLeaps \o KnightLeaps
      [] kind = "Camel" ->
           Leap(3, 1) \o Leap(3, -1) \o Leap(-3, 1) \o Leap(-3, -1)
           \o Leap(1, 3) \o Leap(1, -3) \o Leap(-1, 3) \o Leap(-1, -3)
      [] kind = "TempestRook" ->
           Tempest(1, 1) \o Tempest(-1, 1) \o Tempest(1, -1)
           \o Tempest(-1, -1)
      [] kind = "Cannon" ->
           CannonTake(1, 0) \o CannonTake(-1, 0) \o CannonTake(0, 1)
           \o CannonTake(0, -1) \o CannonMove(1, 0) \o CannonMove(-1, 0)
           \o CannonMove(0, 1) \o CannonMove(0, -1)
      [] kind = "Experiment" ->
           <<Do, TakeMove(1, -1), While, Peek(0, 0),
             Tok("EdgeBottom", 1, -1, ""), Jne("0"), TakeMove(1, 1),
             Repeat(1), Label("0"), Tok("EdgeRight", 1, -1, ""), Jne("1"),
             TakeMove(-1, -1), Repeat(1), Label("1"), Semicolon>>
      [] kind = "Custom" -> KingLeaps

\* struct GameState (engine, lines 410-420): board maps squares to piece
\* ids, pieces maps ids to pieces, pockets maps players to sequences of
\* kinds (a PieceSpec holds a kind only). GameState::new (lines 426-442) puts the
\* two kings on e1 and e8 with place_king (lines 458-467).
NewGameState(starting_player) ==
    LET place_king(g, piece, square) ==
            [g EXCEPT
               !.pieces = MapWith(@, piece.id,
                                  [piece EXCEPT !.pos = Some(square),
                                                !.is_royal = TRUE, !.stun = 0,
                                                !.move_stack = 3]),
               !.board = MapWith(@, square, piece.id)]
    IN  place_king(
            place_king([board |-> EmptyMap, pockets |-> EmptyMap,
                        pieces |-> EmptyMap, turn |-> starting_player,
                        global_state |-> EmptyMap, active_piece |-> None,
                        action_taken |-> FALSE, next_piece_id |-> 2],
                       NewPiece("piece_0", "King", 0), <<4, 0>>),
            NewPiece("piece_1", "King", 1), <<4, 7>>)
\* GameState::to_chessembly_board (engine, lines 1080-1106), for a piece
\* that is on the board.
to_chessembly_board(g, piece_id) ==
    LET piece == g.pieces[piece_id]
        pos == Unwrap(piece.pos)
        on == { sq \in DOMAIN g.board : g.board[sq] \in DOMAIN g.pieces }
    IN  MkBoard(8, 8, pos[1], pos[2], effective_kind(piece), is_white(piece),
                [sq \in on |->
                    [name |-> effective_kind(g.pieces[g.board[sq]]),
                     is_white |-> is_white(g.pieces[g.board[sq]])]],
                g.global_state, {}, FALSE)
\* struct LegalMove (engine, lines 399-406).
LegalMove(from, to, move_type, is_capture, tags, catch_to) ==
    [from |-> from, to |-> to, move_type |-> move_type,
     is_capture |-> is_capture, tags |-> tags, catch_to |-> catch_to]
\* The loop of get_legal_moves, putting each new move in front of the list.
RECURSIVE ToLegalMoves_Reversed(_, _, _)
ToLegalMoves_Reversed(g, pos, acts) ==
    IF acts = << >> THEN << >>
    ELSE LET a == Head(acts)
             target == <<pos[1] + a.dx, pos[2] + a.dy>>
             takemove_sq ==
                 IF IsSome(a.catch_to)
                 THEN <<pos[1] + Unwrap(a.catch_to)[1],
                        pos[2] + Unwrap(a.catch_to)[2]>>
                 ELSE <<0, 0>>
         IN  IF ~is_valid(target)
             THEN ToLegalMoves_Reversed(g, pos, Tail(acts))
             ELSE ToLegalMoves_Reversed(g, pos, Tail(acts))
                  \o <<LegalMove(pos, target, a.move_type,
                                 target \in DOMAIN g.board, a.tags,
                                 takemove_sq)>>
\* The loop of get_legal_moves over the activations (engine, lines
\* 1141-1165): off-board targets are passed over, is_capture says whether
\* the game board holds a piece on the target.
RECURSIVE ToLegalMoves(_, _, _)
ToLegalMoves(g, pos, acts) ==
    IF acts = << >> THEN << >>
    ELSE LET a == Head(acts)
             target == <<pos[1] + a.dx, pos[2] + a.dy>>
             takemove_sq ==
                 IF IsSome(a.catch_to)
                 THEN <<pos[1] + Unwrap(a.catch_to)[1],
                        pos[2] + Unwrap(a.catch_to)[2]>>
                 ELSE <<0, 0>>
         IN  IF ~is_valid(target) THEN ToLegalMoves(g, pos, Tail(acts))
             ELSE <<LegalMove(pos, target, a.move_type,
                              target \in DOMAIN g.board, a.tags,
                              takemove_sq)>>
                  \o ToLegalMoves(g, pos, Tail(acts))

\* Interpreter::execute as a function (chessembly, lines 452-965): the locals
\* when the loop ends; fuel bounds the iterations followed, the first half
\* of them and then the rest.
RECURSIVE RunLoop(_, _, _, _, _)
RunLoop(toks, b, labs, s, fuel) ==
    IF s.panicked \/ s.pc >= Len(toks) \/ fuel = 0 THEN s
    ELSE IF fuel = 1 THEN Iteration(toks, b, labs, s)
    ELSE CHOOSE end \in
             { RunLoop(toks, b, labs, half, fuel - fuel \div 2) :
                 half \in {RunLoop(toks, b, labs, s, fuel \div 2)} } : TRUE
execute(toks, b) ==
    CHOOSE end \in
        { RunLoop(t, on, labs, StartState, MaxEngineSteps) :
            t \in {toks}, on \in {b}, labs \in {LabelTable(toks)} } : TRUE
\* GameState::get_legal_moves as a function (engine, lines 1109-1168); a
\* panic of execute ends the call without a list.
get_legal_moves(g, piece_id) ==
    IF piece_id \notin DOMAIN g.pieces
    THEN [panicked |-> FALSE, moves |-> << >>]
    ELSE LET piece == g.pieces[piece_id] IN
         IF ~can_move(piece) \/ ~IsSome(piece.pos)
         THEN [panicked |-> FALSE, moves |-> << >>]
         ELSE LET r == execute(chessembly_script(effective_kind(piece),
                                                 is_white(piece)),
                               to_chessembly_board(g, piece_id))
              IN  [panicked |-> r.panicked,
                   moves |-> IF r.panicked THEN << >>
                             ELSE ToLegalMoves(g, Unwrap(piece.pos),
                                               r.activations)]

\* ------------------------------------------------ engine: game operations
\* An operation returns [ok, game]: Ok(..) or Err(..) and the game state it
\* leaves behind.
MapWithout(m, key) == [z \in DOMAIN m \ {key} |-> m[z]]
\* PieceKind::score (engine, lines 80-102).
score(kind) ==
    CASE kind \in {"Pawn", "Ferz", "Experiment"} -> 1
      [] kind \in {"Dabbaba", "Alfil"} -> 2
      [] kind \in {"Knight", "Bishop", "Camel"} -> 3
      [] kind \in {"King", "Grasshopper"} -> 4
      [] kind \in {"Rook", "Centaur", "Cannon"} -> 5
      [] kind = "Archbishop" -> 6
      [] kind \in {"Knightrider", "TempestRook"} -> 7
      [] kind = "Queen" -> 9
      [] kind = "Amazon" -> 13
      [] OTHER -> 3
\* GameState::initial_move_stack (lines 494-502).
initial_move_stack(sc) ==
    IF sc \in 1..2 THEN 5
    ELSE IF sc \in 3..5 THEN 3
    ELSE IF sc \in 6..7 THEN 2
    ELSE 1
\* PieceKind::is_promotion_square (lines 123-132).
is_promotion_square(kind, square, white) ==
    kind = "Pawn" /\ (IF white THEN square[2] = 7 ELSE square[2] = 0)
\* GameState::calculate_placement_stun (lines 505-519); the quotient is
\* Rust's, which rounds towards zero.
calculate_placement_stun(piece, square) ==
    IF piece.kind = "Pawn"
    THEN LET distance == IF is_white(piece) THEN 7 - square[2] ELSE square[2]
         IN  8 - (IF distance >= 0 THEN (8 * distance) \div 7
                  ELSE -((8 * (-distance)) \div 7))
    ELSE score(piece.kind)
\* GameState::create_piece (lines 469-473): the id is "piece_" and the
\* counter.
create_piece(g, kind, owner) ==
    NewPiece(<<"piece_0", "piece_1", "piece_2", "piece_3", "piece_4",
               "piece_5", "piece_6", "piece_7", "piece_8", "piece_9">>
                 [g.next_piece_id + 1],
             kind, owner)
\* The sum of the scores of a sequence of pocket specs (line 477).
RECURSIVE total_score(_)
total_score(specs) ==
    IF specs = << >> THEN 0 ELSE score(Head(specs)) + total_score(Tail(specs))
\* A pocket limit that is not reached by the largest allowed sum.
setup_pocket_Below(g, player, specs) ==
    IF total_score(specs) >= MAX_POCKET_SCORE THEN [ok |-> FALSE, game |-> g]
    ELSE [ok |-> TRUE,
          game |-> [g EXCEPT !.pockets = MapWith(@, player, specs)]]
\* GameState::setup_pocket (lines 476-486).
setup_pocket(g, player, specs) ==
    IF total_score(specs) > MAX_POCKET_SCORE THEN [ok |-> FALSE, game |-> g]
    ELSE [ok |-> TRUE,
          game |-> [g EXCEPT !.pockets = MapWith(@, player, specs)]]
\* A placement check that does not ask whether a piece is on the move.
can_place_IgnoresMove(g, player, kind, target) ==
    /\ g.turn = player
    /\ ~g.action_taken
    /\ target \notin DOMAIN g.board
    /\ ~is_promotion_square(kind, target, player = 0)
    /\ player \in DOMAIN g.pockets
    /\ \E i \in 1..Len(g.pockets[player]) : g.pockets[player][i] = kind
\* GameState::can_place (lines 522-556): TRUE for Ok.
can_place(g, player, kind, target) ==
    /\ g.turn = player
    /\ ~g.action_taken
    /\ ~IsSome(g.active_piece)
    /\ target \notin DOMAIN g.board
    /\ ~is_promotion_square(kind, target, player = 0)
    /\ player \in DOMAIN g.pockets
    /\ \E i \in 1..Len(g.pockets[player]) : g.pockets[player][i] = kind
\* GameState::place_piece (lines 559-583).
place_piece(g, player, kind, target) ==
    IF ~can_place(g, player, kind, target) THEN [ok |-> FALSE, game |-> g]
    ELSE LET pocket == g.pockets[player]
             idx == CHOOSE i \in 1..Len(pocket) :
                       /\ pocket[i] = kind
                       /\ \A j \in 1..(i - 1) : pocket[j] # kind
             created == create_piece(g, kind, player)
             piece == [created EXCEPT
                         !.stun = calculate_placement_stun(created, target),
                         !.move_stack = initial_move_stack(score(kind)),
                         !.pos = Some(target)]
         IN  [ok |-> TRUE,
              game |-> [g EXCEPT
                 !.pockets[player] =
                     SubSeq(pocket, 1, idx - 1)
                     \o SubSeq(pocket, idx + 1, Len(pocket)),
                 !.next_piece_id = @ + 1,
                 !.pieces = MapWith(@, piece.id, piece),
                 !.board = MapWith(@, target, piece.id),
                 !.action_taken = TRUE]]
\* A capture that does not charge the attacker for the move.
capture_NoSpend(g, attacker_id, victim_id) ==
    IF victim_id \notin DOMAIN g.pieces THEN [ok |-> FALSE, game |-> g]
    ELSE LET victim == g.pieces[victim_id]
             updated ==
                 IF attacker_id \in DOMAIN g.pieces
                 THEN [g.pieces EXCEPT
                         ![attacker_id].move_stack = @ + victim.move_stack,
                         ![attacker_id].stun = @ + victim.stun]
                 ELSE g.pieces
         IN  [ok |-> TRUE,
              game |-> [g EXCEPT
                 !.board = IF IsSome(victim.pos)
                           THEN MapWithout(@, Unwrap(victim.pos)) ELSE @,
                 !.pieces = MapWithout(updated, victim_id)]]
\* GameState::capture (lines 930-949).
capture(g, attacker_id, victim_id) ==
    IF victim_id \notin DOMAIN g.pieces THEN [ok |-> FALSE, game |-> g]
    ELSE LET victim == g.pieces[victim_id]
             updated ==
                 IF attacker_id \in DOMAIN g.pieces
                 THEN [g.pieces EXCEPT
                         ![attacker_id].move_stack =
                             @ - 1 + victim.move_stack,
                         ![attacker_id].stun = @ + victim.stun]
                 ELSE g.pieces
         IN  [ok |-> TRUE,
              game |-> [g EXCEPT
                 !.board = IF IsSome(victim.pos)
                           THEN MapWithout(@, Unwrap(victim.pos)) ELSE @,
                 !.pieces = MapWithout(updated, victim_id)]]
\* GameState::can_move_piece (lines 586-682): TRUE for Ok. The from square
\* it is given is not looked at.
can_move_piece(g, player, piece_id, to, move_type) ==
    LET is_target_empty == to \notin DOMAIN g.board
        known == ~is_target_empty /\ g.board[to] \in DOMAIN g.pieces
        target_has_enemy == known /\ g.pieces[g.board[to]].owner # player
        target_has_friendly == known /\ g.pieces[g.board[to]].owner = player
    IN  /\ g.turn = player
        /\ ~g.action_taken
        /\ IsSome(g.active_piece) => Unwrap(g.active_piece) = piece_id
        /\ piece_id \in DOMAIN g.pieces
        /\ g.pieces[piece_id].owner = player
        /\ can_move(g.pieces[piece_id])
        /\ CASE move_type = "Move" -> is_target_empty
              [] move_type = "Take" -> target_has_enemy
              [] move_type = "Catch" -> target_has_enemy
              [] move_type = "Shift" -> ~is_target_empty
              [] move_type = "TakeMove" -> ~target_has_friendly
              [] move_type = "Jump" -> is_target_empty
\* The match of apply_action_tags on the lowercased piece name (lines
\* 693-713): the kind, None for a name that is no built-in kind. to_lowercase
\* is spelled out for the names the tags of this model carry.
kind_of_name(piece_name) ==
    LET name == CASE piece_name = "Knight" -> "knight"
                  [] piece_name = "QUEEN" -> "queen"
                  [] OTHER -> piece_name
        kinds == [pawn |-> "Pawn", king |-> "King", queen |-> "Queen",
                  rook |-> "Rook", knight |-> "Knight", bishop |-> "Bishop",
                  amazon |-> "Amazon", grasshopper |-> "Grasshopper",
                  knightrider |-> "Knightrider", archbishop |-> "Archbishop",
                  dabbaba |-> "Dabbaba", alfil |-> "Alfil", ferz |-> "Ferz",
                  centaur |-> "Centaur", camel |-> "Camel",
                  tempestrook |-> "TempestRook", cannon |-> "Cannon",
                  experiment |-> "Experiment"]
    IN  IF name \in DOMAIN kinds THEN Some(kinds[name]) ELSE None
\* The tags applied from the last to the first.
RECURSIVE apply_action_tags_Reversed(_, _, _)
apply_action_tags_Reversed(g, piece_id, tags) ==
    IF tags = << >> THEN g
    ELSE LET tag == tags[Len(tags)]
             new_kind ==
                 IF IsSome(tag.piece_name)
                 THEN kind_of_name(Unwrap(tag.piece_name)) ELSE None
             after ==
                 IF tag.tag_type = "SetState"
                 THEN [g EXCEPT !.global_state =
                                   MapWith(@, tag.key, tag.value)]
                 ELSE IF IsSome(new_kind) /\ piece_id \in DOMAIN g.pieces
                 THEN [g EXCEPT
                         !.pieces[piece_id].kind = Unwrap(new_kind),
                         !.pieces[piece_id].move_stack =
                             initial_move_stack(score(Unwrap(new_kind)))]
                 ELSE g
         IN  apply_action_tags_Reversed(after, piece_id, SubSeq(tags, 1, Len(tags) - 1))
\* GameState::apply_action_tags (lines 685-728), tag after tag.
RECURSIVE apply_action_tags(_, _, _)
apply_action_tags(g, piece_id, tags) ==
    IF tags = << >> THEN g
    ELSE LET tag == Head(tags)
             new_kind ==
                 IF IsSome(tag.piece_name)
                 THEN kind_of_name(Unwrap(tag.piece_name)) ELSE None
             after ==
                 IF tag.tag_type = "SetState"
                 THEN [g EXCEPT !.global_state =
                                   MapWith(@, tag.key, tag.value)]
                 ELSE IF IsSome(new_kind) /\ piece_id \in DOMAIN g.pieces
                 THEN [g EXCEPT
                         !.pieces[piece_id].kind = Unwrap(new_kind),
                         !.pieces[piece_id].move_stack =
                             initial_move_stack(score(Unwrap(new_kind)))]
                 ELSE g
         IN  apply_action_tags(after, piece_id, Tail(tags))
\* The board and the mover after it went from one square to another; spend
\* says whether the move takes one from its move_stack.
Relocated(g, piece_id, from, to, spend) ==
    [g EXCEPT
       !.board = MapWith(MapWithout(@, from), to, piece_id),
       !.pieces = IF piece_id \in DOMAIN @
                  THEN [@ EXCEPT ![piece_id].pos = Some(to),
                                 ![piece_id].move_stack =
                                     IF spend THEN @ - 1 ELSE @]
                  ELSE @]
\* The Shift arm of both move functions (lines 785-803, 892-910).
Shifted(g, piece_id, from, to) ==
    LET target_piece_id == g.board[to]
        swapped == MapWith(MapWith(MapWithout(MapWithout(g.board, from), to),
                                   from, target_piece_id),
                           to, piece_id)
        moved == IF piece_id \in DOMAIN g.pieces
                 THEN [g.pieces EXCEPT ![piece_id].pos = Some(to),
                                       ![piece_id].move_stack = @ - 1]
                 ELSE g.pieces
    IN  [g EXCEPT
           !.board = swapped,
           !.pieces = IF target_piece_id \in DOMAIN moved
                      THEN [moved EXCEPT ![target_piece_id].pos = Some(from)]
                      ELSE moved]
\* GameState::move_piece_by_legal_moves (lines 730-831).
move_piece_by_legal_moves(g, mv) ==
    LET from == mv.from
        to == mv.to
        piece_id == g.board[from]
        Done(gg) ==
            [ok |-> TRUE,
             game |-> apply_action_tags(
                          [gg EXCEPT !.active_piece = Some(piece_id)],
                          piece_id, mv.tags)]
    IN  IF from \notin DOMAIN g.board THEN [ok |-> FALSE, game |-> g]
        ELSE IF piece_id \notin DOMAIN g.pieces THEN [ok |-> FALSE, game |-> g]
        ELSE IF ~can_move_piece(g, g.pieces[piece_id].owner, piece_id, to,
                                mv.move_type)
        THEN [ok |-> FALSE, game |-> g]
        ELSE CASE mv.move_type = "Move" ->
                    Done(Relocated(g, piece_id, from, to, TRUE))
               [] mv.move_type \in {"Take", "TakeMove"} ->
                    IF to \in DOMAIN g.board
                    THEN LET c == capture(g, piece_id, g.board[to]) IN
                         IF ~c.ok THEN [ok |-> FALSE, game |-> g]
                         ELSE Done(Relocated(c.game, piece_id, from, to,
                                             FALSE))
                    ELSE Done(Relocated(g, piece_id, from, to, TRUE))
               [] mv.move_type = "Catch" ->
                    IF to \in DOMAIN g.board
                    THEN LET c == capture(g, piece_id, g.board[to]) IN
                         IF ~c.ok THEN [ok |-> FALSE, game |-> g]
                         ELSE Done(c.game)
                    ELSE [ok |-> FALSE, game |-> g]
               [] mv.move_type = "Shift" ->
                    IF to \in DOMAIN g.board
                    THEN Done(Shifted(g, piece_id, from, to))
                    ELSE [ok |-> FALSE, game |-> g]
               [] mv.move_type = "Jump" ->
                    LET moved == Relocated(g, piece_id, from, to, TRUE) IN
                    IF is_valid(mv.catch_to)
                       /\ mv.catch_to \in DOMAIN moved.board
                    THEN LET c == capture(moved, piece_id,
                                          moved.board[mv.catch_to]) IN
                         IF ~c.ok THEN [ok |-> FALSE, game |-> moved]
                         ELSE Done(c.game)
                    ELSE Done(moved)
\* A move_piece that marks the piece as the active one before it validates.
move_piece_MarksFirst(g, player, piece_id, from, to, move_type) ==
    LET Done(gg) ==
            [ok |-> TRUE, game |-> [gg EXCEPT !.active_piece = Some(piece_id)]]
    IN  IF ~can_move_piece(g, player, piece_id, to, move_type)
        THEN [ok |-> FALSE,
              game |-> [g EXCEPT !.active_piece = Some(piece_id)]]
        ELSE CASE move_type \in {"Move", "Jump"} ->
                    Done(Relocated(g, piece_id, from, to, TRUE))
               [] move_type \in {"Take", "TakeMove"} ->
                    IF to \in DOMAIN g.board
                    THEN LET c == capture(g, piece_id, g.board[to]) IN
                         IF ~c.ok THEN [ok |-> FALSE, game |-> g]
                         ELSE Done(Relocated(c.game, piece_id, from, to,
                                             FALSE))
                    ELSE Done(Relocated(g, piece_id, from, to, TRUE))
               [] move_type = "Catch" ->
                    IF to \in DOMAIN g.board
                    THEN LET victim_id == g.board[to] IN
                         IF victim_id \notin DOMAIN g.pieces
                         THEN [ok |-> FALSE, game |-> g]
                         ELSE LET victim == g.pieces[victim_id] IN
                              Done([g EXCEPT
                                 !.board = MapWithout(@, to),
                                 !.pieces =
                                     MapWithout(
                                         [@ EXCEPT
                                            ![piece_id].move_stack =
                                                @ - 1 + victim.move_stack,
                                            ![piece_id].stun =
                                                @ + victim.stun],
                                         victim_id)])
                    ELSE [ok |-> FALSE, game |-> g]
               [] move_type = "Shift" ->
                    IF to \in DOMAIN g.board
                    THEN Done(Shifted(g, piece_id, from, to))
                    ELSE [ok |-> FALSE, game |-> g]
\* GameState::move_piece (lines 834-927).
move_piece(g, player, piece_id, from, to, move_type) ==
    LET Done(gg) ==
            [ok |-> TRUE, game |-> [gg EXCEPT !.active_piece = Some(piece_id)]]
    IN  IF ~can_move_piece(g, player, piece_id, to, move_type)
        THEN [ok |-> FALSE, game |-> g]
        ELSE CASE move_type \in {"Move", "Jump"} ->
                    Done(Relocated(g, piece_id, from, to, TRUE))
               [] move_type \in {"Take", "TakeMove"} ->
                    IF to \in DOMAIN g.board
                    THEN LET c == capture(g, piece_id, g.board[to]) IN
                         IF ~c.ok THEN [ok |-> FALSE, game |-> g]
                         ELSE Done(Relocated(c.game, piece_id, from, to,
                                             FALSE))
                    ELSE Done(Relocated(g, piece_id, from, to, TRUE))
               [] move_type = "Catch" ->
                    IF to \in DOMAIN g.board
                    THEN LET victim_id == g.board[to] IN
                         IF victim_id \notin DOMAIN g.pieces
                         THEN [ok |-> FALSE, game |-> g]
                         ELSE LET victim == g.pieces[victim_id] IN
                              Done([g EXCEPT
                                 !.board = MapWithout(@, to),
                                 !.pieces =
                                     MapWithout(
                                         [@ EXCEPT
                                            ![piece_id].move_stack =
                                                @ - 1 + victim.move_stack,
                                            ![piece_id].stun =
                                                @ + victim.stun],
                                         victim_id)])
                    ELSE [ok |-> FALSE, game |-> g]
               [] move_type = "Shift" ->
                    IF to \in DOMAIN g.board
                    THEN Done(Shifted(g, piece_id, from, to))
                    ELSE [ok |-> FALSE, game |-> g]
\* A guard that does not ask whether a piece is on the move.
MayAct_IgnoresMove(g, player) == g.turn = player /\ ~g.action_taken
\* The guard the three non-move actions share (lines 953-958, 974-979,
\* 1000-1005).
MayAct(g, player) ==
    g.turn = player /\ ~(g.action_taken \/ IsSome(g.active_piece))
\* GameState::crown_piece (lines 952-971).
crown_piece(g, player, piece_id) ==
    IF ~MayAct(g, player) \/ piece_id \notin DOMAIN g.pieces
    THEN [ok |-> FALSE, game |-> g]
    ELSE IF g.pieces[piece_id].owner # player
            \/ ~IsSome(g.pieces[piece_id].pos)
    THEN [ok |-> FALSE, game |-> g]
    ELSE [ok |-> TRUE,
          game |-> [g EXCEPT !.pieces[piece_id].is_royal = TRUE,
                             !.action_taken = TRUE]]
\* GameState::disguise_piece (lines 974-997).
disguise_piece(g, player, piece_id, as_kind) ==
    IF ~MayAct(g, player) \/ piece_id \notin DOMAIN g.pieces
    THEN [ok |-> FALSE, game |-> g]
    ELSE IF g.pieces[piece_id].owner # player \/ ~g.pieces[piece_id].is_royal
    THEN [ok |-> FALSE, game |-> g]
    ELSE [ok |-> TRUE,
          game |-> [g EXCEPT
                      !.pieces[piece_id].move_stack =
                          initial_move_stack(score(as_kind)),
                      !.pieces[piece_id].disguise = Some(as_kind),
                      !.action_taken = TRUE]]
\* GameState::stun_piece (lines 1352-1370).
stun_piece(g, piece_id, amount) ==
    IF piece_id \notin DOMAIN g.pieces THEN [ok |-> FALSE, game |-> g]
    ELSE IF IF g.pieces[piece_id].owner = g.turn
            THEN amount < 1 \/ amount > 3
            ELSE amount # 1
    THEN [ok |-> FALSE, game |-> g]
    ELSE [ok |-> TRUE,
          game |-> [g EXCEPT !.pieces[piece_id].stun = @ + amount,
                             !.action_taken = TRUE]]
\* GameState::apply_stun (lines 1000-1024).
apply_stun(g, player, target_id, amount) ==
    IF ~MayAct(g, player) \/ target_id \notin DOMAIN g.pieces
    THEN [ok |-> FALSE, game |-> g]
    ELSE IF IF g.pieces[target_id].owner = player
            THEN amount < 1 \/ amount > 3
            ELSE amount # 1
    THEN [ok |-> FALSE, game |-> g]
    ELSE [ok |-> TRUE,
          game |-> [g EXCEPT !.pieces[target_id].stun = @ + amount,
                             !.action_taken = TRUE]]
\* An end of turn that lowers the stun of every piece.
end_turn_SettlesAll(g) ==
    LET next == 1 - g.turn
        Settled(p) == [p EXCEPT !.stun = IF @ - 1 > 0 THEN @ - 1 ELSE 0]
        Refilled(p) ==
            IF p.owner = next /\ IsSome(p.pos)
            THEN [p EXCEPT !.move_stack = initial_move_stack(score(p.kind))]
            ELSE p
    IN  [g EXCEPT
           !.pieces = [id \in DOMAIN @ |-> Refilled(Settled(@[id]))],
           !.turn = next,
           !.active_piece = None,
           !.action_taken = FALSE]
\* GameState::end_turn (lines 1027-1048).
end_turn(g) ==
    LET next == 1 - g.turn
        Settled(p) ==
            IF p.owner = g.turn
            THEN [p EXCEPT !.stun = IF @ - 1 > 0 THEN @ - 1 ELSE 0]
            ELSE p
        Refilled(p) ==
            IF p.owner = next /\ IsSome(p.pos)
            THEN [p EXCEPT !.move_stack = initial_move_stack(score(p.kind))]
            ELSE p
    IN  [g EXCEPT
           !.pieces = [id \in DOMAIN @ |-> Refilled(Settled(@[id]))],
           !.turn = next,
           !.active_piece = None,
           !.action_taken = FALSE]
\* A victory check that looks at black's royal pieces first.
check_victory_BlackFirst(g) ==
    LET white_has_royal ==
            \E id \in DOMAIN g.pieces :
                g.pieces[id].is_royal /\ g.pieces[id].owner = 0
        black_has_royal ==
            \E id \in DOMAIN g.pieces :
                g.pieces[id].is_royal /\ g.pieces[id].owner # 0
    IN  IF ~black_has_royal THEN "WhiteWins"
        ELSE IF ~white_has_royal THEN "BlackWins"
        ELSE "Ongoing"
\* GameState::check_victory (lines 1051-1072).
check_victory(g) ==
    LET white_has_royal ==
            \E id \in DOMAIN g.pieces :
                g.pieces[id].is_royal /\ g.pieces[id].owner = 0
        black_has_royal ==
            \E id \in DOMAIN g.pieces :
                g.pieces[id].is_royal /\ g.pieces[id].owner # 0
    IN  IF ~white_has_royal THEN "BlackWins"
        ELSE IF ~black_has_royal THEN "WhiteWins"
        ELSE "Ongoing"
\* The loop of the Move arm of apply_action (lines 1385-1389): every legal
\* move to the asked square is handed to move_piece_by_legal_moves, and its
\* result is dropped; committed lists the moves that returned Ok.
RECURSIVE CommitMatching(_, _, _, _)
CommitMatching(g, legal, to, committed) ==
    IF legal = << >> THEN [game |-> g, committed |-> committed]
    ELSE IF Head(legal).to # to
    THEN CommitMatching(g, Tail(legal), to, committed)
    ELSE CHOOSE end \in
             { CommitMatching(r.game, Tail(legal), to,
                              IF r.ok THEN Append(committed, Head(legal))
                              ELSE committed) :
                 r \in {move_piece_by_legal_moves(g, Head(legal))} } : TRUE
\* GameState::apply_action (lines 1373-1410); get_legal_moves_at is lines
\* 1334-1340. A panic of the script leaves the game as it was.
apply_action(g, action) ==
    LET unchanged == [panicked |-> FALSE, game |-> g, committed |-> << >>]
        known == action.piece_id \in DOMAIN g.pieces
    IN  CASE action.type = "Place" -> unchanged
          [] action.type = "Move" ->
                IF action.from \notin DOMAIN g.board THEN unchanged
                ELSE CHOOSE out \in
                         { IF l.panicked
                           THEN [unchanged EXCEPT !.panicked = TRUE]
                           ELSE [panicked |-> FALSE] @@
                                CommitMatching(g, l.moves, action.to, << >>) :
                             l \in {get_legal_moves(g, g.board[action.from])} } :
                         TRUE
          [] action.type = "Stun" ->
                [unchanged EXCEPT
                   !.game = stun_piece(g, action.piece_id, action.amount).game]
          [] action.type = "Crown" ->
                IF known
                THEN [unchanged EXCEPT
                        !.game.pieces[action.piece_id].is_royal = TRUE]
                ELSE unchanged
          [] action.type = "Disguise" ->
                IF known
                THEN [unchanged EXCEPT
                        !.game.pieces[action.piece_id].disguise =
                            Some(action.as_kind)]
                ELSE unchanged

\* GameState::promote (lines 1185-1210): a pawn on its promotion square
\* becomes a queen, rook, bishop or knight and keeps its stacks.
promote(g, piece_id, to_kind) ==
    IF piece_id \notin DOMAIN g.pieces THEN [ok |-> FALSE, game |-> g]
    ELSE LET piece == g.pieces[piece_id] IN
         IF \/ piece.kind # "Pawn"
            \/ to_kind \notin {"Queen", "Rook", "Bishop", "Knight"}
            \/ ~IsSome(piece.pos)
         THEN [ok |-> FALSE, game |-> g]
         ELSE IF ~is_promotion_square(piece.kind, Unwrap(piece.pos),
                                      is_white(piece))
         THEN [ok |-> FALSE, game |-> g]
         ELSE [ok |-> TRUE, game |-> [g EXCEPT !.pieces[piece_id].kind = to_kind]]
\* Game::move_piece of the host binding (wasm, lines 110-129), with
\* is_valid_move_at and is_valid_move of the engine (lines 1343-1349,
\* 1171-1174) and get_piece_at: result is the bool it returns, committed the
\* moves its call of apply_action committed.
Game_move_piece(g, from, to) ==
    LET refused == [panicked |-> FALSE, result |-> FALSE, game |-> g,
                    committed |-> << >>]
    IN  IF from \notin DOMAIN g.board THEN refused
        ELSE CHOOSE out \in
            { LET is_valid_move ==
                      \E i \in 1..Len(l.moves) :
                          l.moves[i].from = from /\ l.moves[i].to = to
              IN  IF l.panicked THEN [refused EXCEPT !.panicked = TRUE]
                  ELSE IF \/ ~is_valid_move
                          \/ g.board[from] \notin DOMAIN g.pieces
                  THEN refused
                  ELSE CHOOSE done \in
                           { [panicked |-> r.panicked, result |-> TRUE,
                              game |-> r.game, committed |-> r.committed] :
                               r \in {apply_action(
                                          g, [type |-> "Move",
                                              piece_id |-> g.board[from],
                                              from |-> from, to |-> to])} } :
                           TRUE :
                l \in {get_legal_moves(g, g.board[from])} } : TRUE

\* ------------------------------------------------------------------- state
VARIABLES
    tokens,                     \* Interpreter::tokens, as left by parse
    board,                      \* the BoardState execute is called with
    phase,                      \* "parsed", "running", "returned", "panicked"
                                \* of execute; "idle" and "listed" before and
                                \* after get_legal_moves
    labels,                     \* the label table of the prepass
    pc, index_of_expression_chain, num_of_open_brace, anchor_x, anchor_y,
    last_value, pending_tags, do_index, scope_stack, last_take_pos,
    activations,
    trace,                      \* history: one entry per loop iteration
    calls,                      \* history: one entry per call of execute
    game,                       \* the GameState, NoGame for a bare script
    acting,                     \* the piece id get_legal_moves is called with
    legal_moves,                \* the Vec<LegalMove> get_legal_moves returns
    log,                        \* history of the calls made on the GameState
    lexer                       \* the Lexer of parse: input bytes and pos

locals ==
    <<pc, index_of_expression_chain, num_of_open_brace, anchor_x, anchor_y,
      last_value, pending_tags, do_index, scope_stack, last_take_pos,
      activations>>
vars ==
    <<tokens, board, phase, labels, locals, trace, calls, game, acting,
      legal_moves, log,
                 lexer>>

\* The locals as a record.
Cur ==
    [pc |-> pc, index_of_expression_chain |-> index_of_expression_chain,
     num_of_open_brace |-> num_of_open_brace, anchor_x |-> anchor_x,
     anchor_y |-> anchor_y, last_value |-> last_value,
     pending_tags |-> pending_tags, do_index |-> do_index,
     scope_stack |-> scope_stack, last_take_pos |-> last_take_pos,
     activations |-> activations, panicked |-> FALSE]
\* The locals after the fetch `token = tokens[pc]; pc += 1` (lines 511-518).
Fetched == [Cur EXCEPT !.pc = @ + 1]
Token == tokens[pc + 1]

Commit(r) ==
    /\ pc' = r.pc
    /\ index_of_expression_chain' = r.index_of_expression_chain
    /\ num_of_open_brace' = r.num_of_open_brace
    /\ anchor_x' = r.anchor_x
    /\ anchor_y' = r.anchor_y
    /\ last_value' = r.last_value
    /\ pending_tags' = r.pending_tags
    /\ do_index' = r.do_index
    /\ scope_stack' = r.scope_stack
    /\ last_take_pos' = r.last_take_pos
    /\ activations' = r.activations
    /\ phase' = IF r.panicked THEN "panicked" ELSE "running"

\* One iteration of the main loop (line 510) is possible.
Looping ==
    /\ phase = "running"
    /\ pc < Len(tokens)
    /\ Len(trace) < (IF game = NoGame THEN MaxSteps ELSE MaxEngineSteps)
\* The iteration dispatches a token of kind k (lines 567-961).
Dispatching(k) ==
    /\ Looping
    /\ Token.k = k
    /\ ~should_terminate(Cur, Token)
\* The iteration ends in the locals r; kind is "skip" or "dispatch", i the
\* index of the fetched token, pre the locals before the iteration.
Step(kind, r) ==
    /\ Commit(r)
    /\ trace' = Append(trace, [kind |-> kind, i |-> pc, pre |-> Cur])
    /\ UNCHANGED <<tokens, board, labels, calls, game, acting,
                 legal_moves, log,
                 lexer>>

\* ----------------------------------------------------------------- actions
\* An entry that keeps the activation list of the call before.
Prepass_KeepsList ==
    /\ phase = "parsed"
    /\ labels' = LabelTable(tokens)
    /\ Commit([StartState EXCEPT !.activations = activations])
    /\ calls' = Append(calls, [tokens |-> tokens, board |-> board,
                               result |-> None])
    /\ UNCHANGED <<tokens, board, trace, game, acting,
                 legal_moves, log,
                 lexer>>
\* Lines 459-508: the locals are initialised and the label table is built.
Prepass ==
    /\ phase = "parsed"
    /\ labels' = LabelTable(tokens)
    /\ Commit(StartState)
    /\ calls' = Append(calls, [tokens |-> tokens, board |-> board,
                               result |-> None])
    /\ UNCHANGED <<tokens, board, trace, game, acting,
                 legal_moves, log,
                 lexer>>

\* Lines 521-565: the chain-termination rule.
SkipChain ==
    /\ Looping
    /\ should_terminate(Cur, Token)
    /\ Step("skip", ExecSkip(tokens, Fetched))

\* Lines 510 and 964: the loop ends and the activation list is returned.
Return ==
    /\ phase = "running"
    /\ pc >= Len(tokens)
    /\ phase' = "returned"
    /\ calls' = [calls EXCEPT ![Len(calls)].result = Some(activations)]
    /\ UNCHANGED <<tokens, board, labels, locals, trace, game, acting,
                 legal_moves, log,
                 lexer>>

\* Line 452: execute takes &self and the caller's snapshot, so the host may
\* call it again on the same interpreter and snapshot once it has returned.
ExecuteAgain ==
    /\ phase = "returned"
    /\ game = NoGame
    /\ Len(calls) < MaxCalls
    /\ phase' = "parsed"
    /\ trace' = << >>
    /\ UNCHANGED <<tokens, board, labels, locals, calls, game, acting,
                 legal_moves, log,
                 lexer>>

\* get_legal_moves (engine, lines 1109-1123): no move for a piece id that is
\* unknown, for a piece that cannot move, or for one that is off the board.
NoLegalMoves ==
    IF acting \notin DOMAIN game.pieces THEN TRUE
    ELSE IF ~can_move(game.pieces[acting]) THEN TRUE
    ELSE ~IsSome(game.pieces[acting].pos)
GetLegalMovesEmpty ==
    /\ phase = "idle"
    /\ NoLegalMoves
    /\ legal_moves' = << >>
    /\ phase' = "listed"
    /\ UNCHANGED <<tokens, board, labels, locals, trace, calls, game, acting,
                 log, lexer>>
\* Lines 1125-1137: the snapshot is built and the script of the piece's
\* effective kind is parsed by a fresh interpreter.
GetLegalMoves ==
    /\ phase = "idle"
    /\ ~NoLegalMoves
    /\ board' = to_chessembly_board(game, acting)
    /\ tokens' = chessembly_script(effective_kind(game.pieces[acting]),
                                   is_white(game.pieces[acting]))
    /\ phase' = "parsed"
    /\ UNCHANGED <<labels, locals, trace, calls, game, acting,
                 legal_moves, log,
                 lexer>>
\* Lines 1140-1167: the activations execute returned become legal moves.
CollectLegalMoves ==
    /\ phase = "returned"
    /\ game # NoGame
    /\ legal_moves' =
           ToLegalMoves(game, Unwrap(game.pieces[acting].pos), activations)
    /\ phase' = "listed"
    /\ UNCHANGED <<tokens, board, labels, locals, trace, calls, game, acting,
                 log, lexer>>

Next ==
    \/ Prepass
    \/ SkipChain
    \/ Dispatching("Semicolon")
       /\ Step("dispatch", Iteration(tokens, board, labels, Cur))
    \/ Dispatching("OpenBrace")
       /\ Step("dispatch", Iteration(tokens, board, labels, Cur))
    \/ Dispatching("CloseBrace")
       /\ Step("dispatch", Iteration(tokens, board, labels, Cur))
    \/ Dispatching("TakeMove")
       /\ Step("dispatch", Iteration(tokens, board, labels, Cur))
    \/ Dispatching("Move")
       /\ Step("dispatch", Iteration(tokens, board, labels, Cur))
    \/ Dispatching("Take")
       /\ Step("dispatch", Iteration(tokens, board, labels, Cur))
    \/ Dispatching("Jump")
       /\ Step("dispatch", Iteration(tokens, board, labels, Cur))
    \/ Dispatching("Catch")
       /\ Step("dispatch", Iteration(tokens, board, labels, Cur))
    \/ Dispatching("Shift")
       /\ Step("dispatch", Iteration(tokens, board, labels, Cur))
    \/ Dispatching("Anchor")
       /\ Step("dispatch", Iteration(tokens, board, labels, Cur))
    \/ Looping /\ Token.k \in PredicateKinds /\ ~should_terminate(Cur, Token)
       /\ Step("dispatch", Iteration(tokens, board, labels, Cur))
    \/ Dispatching("Peek")
       /\ Step("dispatch", Iteration(tokens, board, labels, Cur))
    \/ Dispatching("SetState")
       /\ Step("dispatch", Iteration(tokens, board, labels, Cur))
    \/ Dispatching("SetStateReset")
       /\ Step("dispatch", Iteration(tokens, board, labels, Cur))
    \/ Dispatching("Transition")
       /\ Step("dispatch", Iteration(tokens, board, labels, Cur))
    \/ Dispatching("Repeat")
       /\ Step("dispatch", Iteration(tokens, board, labels, Cur))
    \/ Dispatching("Do")
       /\ Step("dispatch", Iteration(tokens, board, labels, Cur))
    \/ Dispatching("While")
       /\ Step("dispatch", Iteration(tokens, board, labels, Cur))
    \/ Dispatching("Jmp")
       /\ Step("dispatch", Iteration(tokens, board, labels, Cur))
    \/ Dispatching("Jne")
       /\ Step("dispatch", Iteration(tokens, board, labels, Cur))
    \/ Dispatching("Label")
       /\ Step("dispatch", Iteration(tokens, board, labels, Cur))
    \/ Dispatching("Not")
       /\ Step("dispatch", Iteration(tokens, board, labels, Cur))
    \/ Dispatching("End")
       /\ Step("dispatch", Iteration(tokens, board, labels, Cur))
    \/ Return
    \/ ExecuteAgain
    \/ GetLegalMovesEmpty
    \/ GetLegalMoves
    \/ CollectLegalMoves

\* ------------------------------------------------------------------ inputs
Occupant(name, white) == [name |-> name, is_white |-> white]
OnePiece(x, y, name, white) ==
    MapWith(EmptyMap, <<x, y>>, Occupant(name, white))
Case(script, b) == [script |-> script, board |-> b]

\* make_empty_board of the unit tests (lines 972-985), with an occupancy.
TestBoard(pieces) ==
    MkBoard(8, 8, 4, 4, "test", TRUE, pieces, EmptyMap, {}, FALSE)
RookSlideScript == <<TakeMove(1, 0), Repeat(1), Semicolon>>
SkipOverBracesScript ==
    <<IfState("mode", 1), SetState("mode", 0),
      OpenBrace, TakeMove(1, 0), Repeat(1), CloseBrace,
      OpenBrace, TakeMove(-1, 0), Repeat(1), CloseBrace, Semicolon>>
ScopeRestoreScript ==
    <<Move(0, 1), OpenBrace, Move(1, 1), CloseBrace, Move(-1, 1), Semicolon>>
\* The cases every specification of the interpreter starts from.
CuratedCases ==
    \* The scripts and boards of the unit tests (lines 987-1201).
    LET TestCases ==
            { Case(<<TakeMove(1, 0), Semicolon, TakeMove(0, 1), Semicolon,
                     TakeMove(-1, 0), Semicolon, TakeMove(0, -1), Semicolon>>,
                   TestBoard(EmptyMap)),
              Case(RookSlideScript, TestBoard(EmptyMap)),
              Case(RookSlideScript, TestBoard(OnePiece(6, 4, "pawn", TRUE))),
              Case(RookSlideScript, TestBoard(OnePiece(6, 4, "pawn", FALSE))),
              Case(<<Move(1, 0), Semicolon>>,
                   TestBoard(OnePiece(5, 4, "enemy", FALSE))),
              Case(<<Take(1, 0), Semicolon>>, TestBoard(EmptyMap)),
              Case(ScopeRestoreScript, TestBoard(EmptyMap)),
              Case(<<Observe(1, 0), TakeMove(2, 1), Semicolon>>,
                   TestBoard(OnePiece(5, 4, "blocker", TRUE))),
              Case(<<Do, Move(1, 0), While, Semicolon>>, TestBoard(EmptyMap)),
              Case(<<IfState("mode", 0), Move(1, 0), Semicolon>>,
                   TestBoard(EmptyMap)),
              Case(<<IfState("mode", 1), Move(1, 0), Semicolon>>,
                   TestBoard(EmptyMap)),
              Case(<<Piece("rook"), Move(1, 0), Semicolon>>,
                   [TestBoard(EmptyMap) EXCEPT !.piece_name = "rook"]),
              Case(<<Transition("queen"), Move(1, 0), Semicolon>>,
                   TestBoard(EmptyMap)),
              Case(<<Observe(1, 0), Not, Jne("SKIP"), Move(2, 0), Semicolon,
                     Label("SKIP"), Move(1, 0), Semicolon>>,
                   TestBoard(OnePiece(5, 4, "blocker", TRUE))),
              Case(SkipOverBracesScript, TestBoard(EmptyMap)),
              Case(<<Piece("test"), Jmp("0"), Move(0, 1), Label("0"), Piece("test"),
                     Jmp("1"), Move(1, 0), Move(1, 0), Label("1"), Semicolon>>,
                   TestBoard(EmptyMap)),
              Case(<<Piece("queen"), Jne("0"), Move(0, 1), Label("0"), Move(1, 0),
                     Move(1, 0), Semicolon>>,
                   TestBoard(EmptyMap)) }

        \* Further scripts, so that every token kind is dispatched: the operators the
        \* unit tests leave out, the built-in scripts' take/jump and peek chains
        \* (engine, lines 263-270) cut to one direction, and scripts in which a
        \* failing operator is followed by `{`, a jump is reached a second time
        \* after repeat has led back over a `;`, `not` lets a move follow a blocked
        \* observe, moves are emitted before and after a tag and in the next chain,
        \* or repeat leads back to a jump whose label stands in the next chain only.
        ProbeCases ==
            { Case(<<Anchor(1, 0), Catch(1, 0), Shift(1, 0), SetState("mode", 1),
                     SetStateReset, Peek(1, 0), End, Semicolon>>,
                   TestBoard(OnePiece(6, 4, "pawn", FALSE))),
              Case(<<Do, Take(1, 0), Enemy(0, 0), Not, While, Jump(1, 0), Repeat(1),
                     Semicolon>>,
                   TestBoard(OnePiece(5, 4, "pawn", FALSE))),
              Case(<<Jump(1, 0), Semicolon>>, TestBoard(EmptyMap)),
              Case(<<Jmp("A"), Move(1, 0), Semicolon>>, TestBoard(EmptyMap)),
              Case(<<IfState("mode", 1), OpenBrace, TakeMove(1, 0), Repeat(1),
                     CloseBrace, TakeMove(-1, 0), Semicolon>>,
                   TestBoard(EmptyMap)),
              Case(<<Move(0, 1), OpenBrace, End, OpenBrace, Move(1, 0), CloseBrace,
                     Move(1, 1), CloseBrace, Move(-1, 1), Semicolon>>,
                   TestBoard(EmptyMap)),
              Case(<<Jmp("A"), Label("A"), Semicolon, Repeat(3), Label("A"),
                     Move(1, 0), Semicolon>>,
                   TestBoard(EmptyMap)),
              Case(<<Observe(1, 0), Not, Move(0, 1), Semicolon>>,
                   TestBoard(OnePiece(5, 4, "blocker", TRUE))),
              Case(<<Move(1, 0), Transition("queen"), Move(0, 1), Semicolon,
                     Move(-1, 0), Semicolon>>,
                   TestBoard(EmptyMap)),
              Case(<<Jmp("B"), Jmp("A"), Label("B"), Semicolon, Repeat(3),
                     Label("A"), Move(1, 0), Semicolon>>,
                   TestBoard(EmptyMap)) }
    IN  TestCases \cup ProbeCases

\* All scripts of at most MaxLen tokens over an alphabet.
Scripts(alphabet) == UNION {[1..n -> alphabet] : n \in 0..MaxLen}
\* The small boards: the acting piece on (1,1) of a BoardN x BoardN board
\* that is empty or holds one friendly or one enemy piece on (2,1).
SmallBoards ==
    LET SmallBoard(pieces) ==
            MkBoard(BoardN, BoardN, 1, 1, "test", TRUE, pieces, EmptyMap, {},
                    FALSE)
    IN  { SmallBoard(EmptyMap), SmallBoard(OnePiece(2, 1, "pawn", TRUE)),
          SmallBoard(OnePiece(2, 1, "pawn", FALSE)) }
Family(alphabet) ==
    { Case(sc, b) : sc \in Scripts(alphabet), b \in SmallBoards }

\* The locals and histories before the first call.
Fresh ==
    /\ labels = EmptyMap
    /\ pc = 0
    /\ index_of_expression_chain = 0
    /\ num_of_open_brace = 0
    /\ anchor_x = 0
    /\ anchor_y = 0
    /\ last_value = TRUE
    /\ pending_tags = << >>
    /\ do_index = None
    /\ scope_stack = << >>
    /\ last_take_pos = None
    /\ activations = << >>
    /\ trace = << >>
    /\ calls = << >>
    /\ legal_moves = << >>
    /\ lexer = [input |-> << >>, pos |-> 0]
\* A parsed script and a snapshot, about to be executed.
InitScripts(cases) ==
    /\ \E c \in cases : tokens = c.script /\ board = c.board
    /\ phase = "parsed"
    /\ game = NoGame
    /\ acting = 0
    /\ Fresh
    /\ log = [ops |-> 0, limit |-> 0, last |-> None, turn |-> << >>]
\* A game, and a piece id get_legal_moves is about to be called with; the
\* snapshot is not built yet, `board` holds a board without squares.
InitGames(games) ==
    /\ \E c \in games : game = c.game /\ acting = c.piece_id
    /\ phase = "idle"
    /\ tokens = << >>
    /\ board = MkBoard(0, 0, 0, 0, "", TRUE, EmptyMap, EmptyMap, {}, FALSE)
    /\ Fresh
    /\ log = [ops |-> 0, limit |-> 0, last |-> None, turn |-> << >>]
\* A piece put on a square as the engine's tests do (lines 1632-1641,
\* 1675-1684): created, inserted, given a position and its two stacks.
PutPiece(g, id, kind, owner, square, stun, move_stack) ==
    [g EXCEPT
       !.pieces = MapWith(@, id,
                          [NewPiece(id, kind, owner) EXCEPT
                             !.pos = Some(square), !.stun = stun,
                             !.move_stack = move_stack]),
       !.board = MapWith(@, square, id),
       !.next_piece_id = @ + 1]
\* The fresh game with one more piece of each side, and the calls of
\* get_legal_moves for its pieces and for an id it does not know: the white
\* pawn can take the black pawn, the black pawn is stunned.
CuratedGames ==
    { [game |-> PutPiece(PutPiece(NewGameState(0), "piece_2", "Pawn", 0,
                                  <<3, 3>>, 0, 3),
                         "piece_3", "Pawn", 1, <<4, 4>>, 2, 3),
       piece_id |-> id] :
        id \in {"piece_0", "piece_1", "piece_2", "piece_3", "piece_9"} }
InitWith(cases) == InitScripts(cases) \/ InitGames(CuratedGames)

\* Scripts with scopes, chains, failing operators and `not`.
Spec ==
    /\ InitWith(Family({ Move(1, 0), TakeMove(1, 0), Observe(1, 0), End, Not,
                         OpenBrace, CloseBrace, Semicolon })
                \cup CuratedCases)
    /\ [][Next]_vars

\* The slides `take-move(dx,dy) repeat(1);` of the rook tests (lines
\* 1002-1042), in every direction of at most MaxDir files and ranks, from
\* every square of a BoardN x BoardN board that is otherwise empty or holds
\* one friendly or enemy piece.
SpecSlide ==
    /\ InitWith(
          LET SlideScript(dx, dy) == <<TakeMove(dx, dy), Repeat(1), Semicolon>>
              Directions ==
                  { d \in (-MaxDir..MaxDir) \X (-MaxDir..MaxDir) : d # <<0, 0>> }
              Squares == (0..(BoardN - 1)) \X (0..(BoardN - 1))
              SlideBoard(sq, pieces) ==
                  MkBoard(BoardN, BoardN, sq[1], sq[2], "test", TRUE, pieces,
                          EmptyMap, {}, FALSE)
              SlideBoards ==
                  { SlideBoard(sq, EmptyMap) : sq \in Squares }
                  \cup { SlideBoard(c[1],
                                    OnePiece(c[2][1], c[2][2], "pawn", c[3])) :
                           c \in { c \in Squares \X Squares \X BOOLEAN :
                                      c[1] # c[2] } }
              SlideCases ==
                  { Case(SlideScript(d[1], d[2]), b) :
                      d \in Directions, b \in SlideBoards }
          IN  SlideCases \cup CuratedCases)
    /\ [][Next]_vars

\* Scripts with do/while, repeat, jumps and labels, predicates and `not`.
SpecControl ==
    /\ InitWith(Family({ Do, While, Repeat(1), Jmp("A"), Jne("A"), Label("A"),
                         Not, Observe(1, 0), Move(1, 0), End, Semicolon })
                \cup CuratedCases)
    /\ [][Next]_vars

\* Scripts with tags, scopes and chains.
SpecTags ==
    /\ InitWith(Family({ Transition("queen"), SetState("mode", 1),
                         SetStateReset, Move(1, 0), Move(0, 1), End,
                         OpenBrace, CloseBrace, Semicolon })
                \cup CuratedCases)
    /\ [][Next]_vars

\* Scripts of the capturing operators, with the acting piece on the left edge
\* of a BoardN x BoardN board and up to two pieces on the squares to its
\* right.
SpecCapture ==
    /\ InitWith(
          LET CaptureAlphabet ==
                  { Take(1, 0), Jump(1, 0), Move(1, 0), TakeMove(1, 0),
                    Catch(0, 0), Shift(1, 0), Anchor(-1, 0), End, Not, Semicolon }
              CaptureBoard(pieces) ==
                  MkBoard(BoardN, BoardN, 0, 1, "test", TRUE, pieces, EmptyMap, {},
                          FALSE)
              CaptureBoards ==
                  { CaptureBoard(EmptyMap),
                    CaptureBoard(OnePiece(2, 1, "pawn", FALSE)),
                    CaptureBoard(OnePiece(1, 1, "pawn", FALSE)),
                    CaptureBoard(OnePiece(1, 1, "pawn", TRUE)),
                    CaptureBoard(MapWith(OnePiece(1, 1, "pawn", FALSE), <<2, 1>>,
                                         Occupant("pawn", FALSE))),
                    CaptureBoard(MapWith(OnePiece(1, 1, "pawn", FALSE), <<2, 1>>,
                                         Occupant("pawn", TRUE))) }
          IN  { Case(sc, b) :
                  sc \in Scripts(CaptureAlphabet), b \in CaptureBoards }
              \cup CuratedCases)
    /\ [][Next]_vars

\* Games for the move generator: the fresh game with a black pawn on f4, a
\* white pawn on d6 and a white piece of one of the modelled kinds on a
\* square from which it meets them, the board edge or nothing; the call is
\* made for that piece or for the black pawn.
SpecEngine ==
    /\ \/ InitScripts(CuratedCases)
       \/ InitGames(
          LET EngineGame(kind, square) ==
                  PutPiece(PutPiece(PutPiece(NewGameState(0), "piece_2", "Pawn", 1,
                                             <<5, 3>>, 0, 1),
                                    "piece_3", "Pawn", 0, <<3, 5>>, 0, 1),
                           "piece_4", kind, 0, square, 0, 3)
              EngineGames ==
                  { [game |-> EngineGame(kind, sq), piece_id |-> id] :
                      kind \in {"Pawn", "King", "Knight", "Rook", "Cannon"},
                      sq \in {<<3, 3>>, <<4, 3>>, <<3, 4>>, <<0, 0>>, <<7, 3>>,
                              <<6, 6>>},
                      id \in {"piece_2", "piece_4"} }
          IN  EngineGames \cup CuratedGames)
    /\ [][Next]_vars

\* Games for the built-in scripts: the fresh game with a piece of a built-in
\* kind and of either side on a corner, an edge or an inner square, and at
\* most MaxBlockers pawns of either side on squares near it: on its
\* diagonals, in its row and column, and on the squares a slide from a
\* diagonal neighbour passes; and the fresh game with a stunned piece of a
\* built-in kind, which gets no moves.
SpecBuiltin ==
    /\ \/ InitScripts(CuratedCases)
       \/ InitGames(
          LET Kinds ==
                  {"Pawn", "King", "Queen", "Rook", "Knight", "Bishop",
                   "Amazon", "Grasshopper", "Knightrider", "Archbishop",
                   "Dabbaba", "Alfil", "Ferz", "Centaur", "Camel",
                   "TempestRook", "Cannon", "Experiment", "Custom"}
              Squares ==
                  {<<0, 0>>, <<7, 7>>, <<3, 3>>, <<4, 4>>, <<0, 4>>, <<6, 1>>}
              Near == <<<<1, 1>>, <<2, 1>>, <<1, 0>>, <<3, 0>>, <<-1, -1>>,
                        <<-1, -2>>, <<-2, 0>>, <<0, 2>>>>
              Picks ==
                  { I \in SUBSET ((DOMAIN Near) \X {0, 1}) :
                      /\ Cardinality(I) <= MaxBlockers
                      /\ \A b, c \in I : b[1] = c[1] => b = c }
              RECURSIVE PutAll(_, _, _, _)
              PutAll(g, sq, I, i) ==
                  IF i > Len(Near) THEN g
                  ELSE LET at == <<sq[1] + Near[i][1], sq[2] + Near[i][2]>>
                           owners == {o \in {0, 1} : <<i, o>> \in I}
                       IN  PutAll(IF owners # {} /\ is_valid(at)
                                     /\ at \notin DOMAIN g.board
                                  THEN LET o == CHOOSE o \in owners : TRUE IN
                                       PutPiece(g,
                                                create_piece(g, "Pawn", o).id,
                                                "Pawn", o, at, 0, 5)
                                  ELSE g,
                                  sq, I, i + 1)
              BuiltinGame(kind, owner, sq, I) ==
                  PutAll(PutPiece(NewGameState(0), "piece_2", kind, owner, sq,
                                  0, initial_move_stack(score(kind))),
                         sq, I, 1)
          IN  { [game |-> BuiltinGame(kind, owner, sq, I),
                 piece_id |-> "piece_2"] :
                  kind \in Kinds, owner \in {0, 1}, sq \in Squares,
                  I \in Picks }
              \cup { [game |-> PutPiece(NewGameState(0), "piece_2", kind, 0,
                                        <<3, 3>>, 1,
                                        initial_move_stack(score(kind))),
                      piece_id |-> "piece_2"] : kind \in Kinds })
    /\ [][Next]_vars

\* --------------------------------------------------- the game being played
\* A call of an operation: the game becomes g2, the call is remembered with
\* the game it found, and a call that returned Ok joins the calls of the
\* running turn; end_turn starts the next turn. The host makes at most
\* log.limit calls (Calling).
Calling == phase = "idle" /\ log.ops < log.limit
Called(op, args, ok, out, g2) ==
    /\ game' = g2
    /\ log' = LET call == [op |-> op, args |-> args, pre |-> game, ok |-> ok,
                           out |-> out]
              IN  [ops |-> log.ops + 1,
                   limit |-> log.limit,
                   last |-> Some(call),
                   turn |-> IF op = "end_turn" THEN << >>
                            ELSE IF ok THEN Append(log.turn, call)
                            ELSE log.turn]
    /\ UNCHANGED <<tokens, board, phase, labels, locals, trace, calls, acting,
                 legal_moves, lexer>>
\* The square a piece id stands on, h8 for an id without a square.
SquareOf(id) ==
    IF id \in DOMAIN game.pieces /\ IsSome(game.pieces[id].pos)
    THEN Unwrap(game.pieces[id].pos) ELSE <<7, 7>>
\* The piece ids a host calls with: those of the game and one it does not
\* know.
Ids == DOMAIN game.pieces \cup {"piece_9"}
\* The squares a host calls with: the kings' squares, g8 (empty, a knight's
\* move from f6) and f6.
Targets == {<<4, 7>>, <<4, 0>>, <<6, 7>>, <<5, 5>>}
\* The public operations of GameState, called with both players, the piece
\* ids of the game and one it does not know, the kings' squares, g8 (empty, a
\* knight's move from f6) and f6, pockets that sum to 9, 39 and 40, every
\* move type, tag lists, and jumps with and without a catch square.
NextGame ==
    \/ Calling /\ \E player \in {0, 1},
          specs \in { <<"Queen">>, <<"Amazon", "Amazon", "Amazon">>,
                      <<"Amazon", "Amazon", "Amazon", "Pawn">> } :
          LET r == setup_pocket(game, player, specs) IN
          Called("setup_pocket", [player |-> player, specs |-> specs],
                 r.ok, 0, r.game)
    \/ Calling /\ \E player \in {0, 1}, kind \in {"Pawn", "Queen"},
          target \in Targets \cup {<<3, 7>>, <<3, 0>>} :
          LET r == place_piece(game, player, kind, target) IN
          Called("place_piece",
                 [player |-> player, kind |-> kind, target |-> target],
                 r.ok, 0, r.game)
    \/ Calling /\ \E attacker_id \in Ids, victim_id \in Ids :
          LET r == capture(game, attacker_id, victim_id) IN
          Called("capture",
                 [attacker_id |-> attacker_id, victim_id |-> victim_id],
                 r.ok, 0, r.game)
    \/ Calling /\ \E id \in Ids, to \in Targets,
          tags \in { << >>,
                     <<SetStateTag("castled", 1), TransitionTag("Knight"),
                       SetStateTag("castled", 2)>>,
                     <<TransitionTag("QUEEN"), TransitionTag("dragon"),
                       TransitionTag("pawn")>> },
          move_type \in {"Move", "Take", "Catch", "Shift", "TakeMove",
                         "Jump"},
          catch_to \in {<<0, 0>>, <<4, 7>>} :
          /\ catch_to = <<0, 0>> \/ move_type = "Jump"
          /\ LET mv == LegalMove(SquareOf(id), to, move_type,
                                 to \in DOMAIN game.board, tags, catch_to)
                 r == move_piece_by_legal_moves(game, mv)
             IN  Called("move_piece_by_legal_moves", [mv |-> mv], r.ok, 0,
                        r.game)
    \/ Calling /\ \E player \in {0, 1}, piece_id \in Ids, to \in Targets,
          move_type \in {"Move", "Take", "Catch", "Shift", "TakeMove",
                         "Jump"} :
          \E from \in {SquareOf(piece_id)}
                       \cup (IF move_type = "Move" THEN {<<4, 1>>} ELSE {}) :
          LET r == move_piece(game, player, piece_id, from, to, move_type) IN
          Called("move_piece",
                 [player |-> player, piece_id |-> piece_id, from |-> from,
                  to |-> to, move_type |-> move_type],
                 r.ok, 0, r.game)
    \/ Calling /\ \E id \in Ids, to \in {<<4, 7>>, <<4, 0>>, <<6, 7>>},
          type \in {"Move", "Place", "Stun", "Crown", "Disguise"} :
          /\ to = <<4, 7>> \/ type = "Move"
          /\ LET action == [type |-> type, piece_id |-> id,
                            from |-> SquareOf(id), to |-> to, target |-> to,
                            amount |-> 1, as_kind |-> "Queen"]
                 r == apply_action(game, action)
             IN
                 Called("apply_action", [action |-> action], ~r.panicked,
                        r.committed, r.game)
    \/ Calling /\ \E player \in {0, 1}, piece_id \in Ids :
          LET r == crown_piece(game, player, piece_id) IN
          Called("crown_piece", [player |-> player, piece_id |-> piece_id],
                 r.ok, 0, r.game)
    \/ Calling /\ \E player \in {0, 1}, piece_id \in Ids,
          as_kind \in {"Pawn", "Queen"} :
          LET r == disguise_piece(game, player, piece_id, as_kind) IN
          Called("disguise_piece",
                 [player |-> player, piece_id |-> piece_id,
                  as_kind |-> as_kind],
                 r.ok, 0, r.game)
    \/ Calling /\ \E player \in {0, 1}, target_id \in Ids, amount \in {1, 3, 4} :
          LET r == apply_stun(game, player, target_id, amount) IN
          Called("apply_stun",
                 [player |-> player, piece_id |-> target_id,
                  amount |-> amount],
                 r.ok, 0, r.game)
    \/ Calling /\ Called("end_turn", [player |-> game.turn], TRUE, 0, end_turn(game))
    \/ Calling /\ Called("check_victory", [player |-> game.turn], TRUE,
              check_victory(game), game)
    \/ Calling /\ \E piece_id \in Ids :
          LET r == get_legal_moves(game, piece_id) IN
          Called("get_legal_moves", [piece_id |-> piece_id], ~r.panicked,
                 r.moves, game)

\* A game in play and a host that makes at most limit calls: the fresh game
\* with a knight of each side a move away from the other side's king, the
\* knight of the side that moved last with one move spent, a stunned pawn of
\* each side, and a pocket for white; white starts and black has a pocket
\* too, or black starts without one.
InitGame(limit) ==
    /\ \E starting_player \in {0, 1} :
          LET knights ==
                  PutPiece(PutPiece(NewGameState(starting_player),
                                    "piece_2", "Knight", 0, <<5, 5>>, 0,
                                    3 - starting_player),
                           "piece_3", "Knight", 1, <<3, 2>>, 0,
                           2 + starting_player)
              pawns ==
                  PutPiece(PutPiece(knights, "piece_4", "Pawn", 0, <<0, 1>>,
                                    2, 5),
                           "piece_5", "Pawn", 1, <<0, 6>>, 2, 5)
              w == setup_pocket(pawns, 0, <<"Pawn", "Knight", "Pawn">>).game
          IN  game = IF starting_player = 0
                     THEN setup_pocket(w, 1, <<"Queen">>).game ELSE w
    /\ acting = "piece_0"
    /\ phase = "idle"
    /\ tokens = << >>
    /\ board = MkBoard(0, 0, 0, 0, "", TRUE, EmptyMap, EmptyMap, {}, FALSE)
    /\ Fresh
    /\ log = [ops |-> 0, limit |-> limit, last |-> None, turn |-> << >>]
SpecGame == InitGame(MaxOps) /\ [][NextGame]_vars

\* Longer play with fewer arguments: the pieces of the game, the two kings'
\* squares and g8, moves without tags, jumps that catch on e8.
NextPlay ==
    \/ Calling /\ \E player \in {0, 1} :
          LET r == place_piece(game, player, "Pawn", <<4, 1>>) IN
          Called("place_piece",
                 [player |-> player, kind |-> "Pawn", target |-> <<4, 1>>],
                 r.ok, 0, r.game)
    \/ Calling /\ \E piece_id \in DOMAIN game.pieces, to \in {<<4, 7>>, <<4, 0>>, <<6, 7>>},
          move_type \in {"Move", "Take", "Catch", "Jump"} :
          LET mv == LegalMove(SquareOf(piece_id), to, move_type,
                              to \in DOMAIN game.board, << >>, <<4, 7>>)
              r == move_piece_by_legal_moves(game, mv)
          IN  Called("move_piece_by_legal_moves", [mv |-> mv], r.ok, 0,
                     r.game)
    \/ Calling /\ \E player \in {0, 1}, piece_id \in DOMAIN game.pieces,
          to \in {<<4, 7>>, <<4, 0>>, <<6, 7>>}, move_type \in {"Move", "TakeMove", "Catch"} :
          LET from == SquareOf(piece_id)
              r == move_piece(game, player, piece_id, from, to, move_type)
          IN  Called("move_piece",
                     [player |-> player, piece_id |-> piece_id,
                      from |-> from, to |-> to, move_type |-> move_type],
                     r.ok, 0, r.game)
    \/ Calling /\ \E player \in {0, 1}, piece_id \in DOMAIN game.pieces :
          LET r == crown_piece(game, player, piece_id) IN
          Called("crown_piece", [player |-> player, piece_id |-> piece_id],
                 r.ok, 0, r.game)
    \/ Calling /\ \E player \in {0, 1}, piece_id \in DOMAIN game.pieces :
          LET r == disguise_piece(game, player, piece_id, "Pawn") IN
          Called("disguise_piece",
                 [player |-> player, piece_id |-> piece_id,
                  as_kind |-> "Pawn"],
                 r.ok, 0, r.game)
    \/ Calling /\ \E player \in {0, 1}, target_id \in DOMAIN game.pieces :
          LET r == apply_stun(game, player, target_id, 1) IN
          Called("apply_stun",
                 [player |-> player, piece_id |-> target_id, amount |-> 1],
                 r.ok, 0, r.game)
    \/ Calling /\ Called("end_turn", [player |-> game.turn], TRUE, 0,
                         end_turn(game))
    \/ Calling /\ Called("check_victory", [player |-> game.turn], TRUE,
                         check_victory(game), game)
    \/ Calling /\ \E piece_id \in DOMAIN game.pieces :
          LET r == get_legal_moves(game, piece_id) IN
          Called("get_legal_moves", [piece_id |-> piece_id], ~r.panicked,
                 r.moves, game)
SpecPlay == InitGame(MaxPlies) /\ [][NextPlay]_vars

\* A game between two hosts that use the engine as the binding does: they
\* place from the pocket, commit moves that get_legal_moves returned, move
\* through Game::move_piece, stun, crown, disguise, promote and end the turn.
NextMatch ==
    \/ Calling /\ \E player \in {0, 1}, target \in {<<2, 1>>, <<0, -1>>} :
          LET r == place_piece(game, player, "Pawn", target) IN
          Called("place_piece",
                 [player |-> player, kind |-> "Pawn", target |-> target],
                 r.ok, 0, r.game)
    \/ Calling /\ \E piece_id \in DOMAIN game.pieces :
          \E l \in {get_legal_moves(game, piece_id)} :
          \E i \in 1..Len(l.moves) :
          \E r \in {move_piece_by_legal_moves(game, l.moves[i])} :
             Called("move_piece_by_legal_moves",
                    [mv |-> l.moves[i], piece_id |-> piece_id], r.ok, 0,
                    r.game)
    \/ Calling /\ \E from \in DOMAIN game.board,
          to \in {<<2, 3>>, <<3, 7>>, <<4, 1>>, <<4, 6>>} :
          \E r \in {Game_move_piece(game, from, to)} :
          Called("Game.move_piece", [from |-> from, to |-> to],
                 ~r.panicked, [result |-> r.result, committed |-> r.committed],
                 r.game)
    \/ Calling /\ \E target_id \in DOMAIN game.pieces :
          LET r == apply_stun(game, game.turn, target_id, 1) IN
          Called("apply_stun",
                 [player |-> game.turn, piece_id |-> target_id, amount |-> 1],
                 r.ok, 0, r.game)
    \/ Calling /\ \E piece_id \in DOMAIN game.pieces :
          LET r == crown_piece(game, game.turn, piece_id) IN
          Called("crown_piece", [player |-> game.turn, piece_id |-> piece_id],
                 r.ok, 0, r.game)
    \/ Calling /\ \E piece_id \in DOMAIN game.pieces :
          LET r == disguise_piece(game, game.turn, piece_id, "Cannon") IN
          Called("disguise_piece",
                 [player |-> game.turn, piece_id |-> piece_id,
                  as_kind |-> "Cannon"],
                 r.ok, 0, r.game)
    \/ Calling /\ \E piece_id \in DOMAIN game.pieces :
          LET r == promote(game, piece_id, "Queen") IN
          Called("promote", [piece_id |-> piece_id, to_kind |-> "Queen"],
                 r.ok, 0, r.game)
    \/ Calling /\ Called("end_turn", [player |-> game.turn], TRUE, 0,
                         end_turn(game))

\* A game in its middle, white to move: white's queen on a4 has been crowned
\* and disguised as a cannon (its move_stack is the queen's 1, refilled by
\* end_turn), black's queen on b4 spent its move in black's turn, a white
\* pawn stands on d7 next to black's king, and both sides have a pawn in the
\* pocket. With stale, a host has then called move_piece for the pawn with a
\* from square that is not the pawn's and the target d8, capture for black's
\* king and the pawn, and end_turn: d7 still maps to the pawn's id.
InitMatch(stale) ==
    /\ LET queens ==
               PutPiece(PutPiece(NewGameState(0), "piece_2", "Queen", 0,
                                 <<0, 3>>, 0, 1),
                        "piece_3", "Queen", 1, <<1, 3>>, 0, 0)
           crowned ==
               [PutPiece(queens, "piece_4", "Pawn", 0, <<3, 6>>, 0, 5) EXCEPT
                   !.pieces["piece_2"].is_royal = TRUE,
                   !.pieces["piece_2"].disguise = Some("Cannon")]
           middle ==
               setup_pocket(setup_pocket(crowned, 0, <<"Pawn">>).game, 1,
                            <<"Pawn">>).game
           moved == move_piece(middle, 0, "piece_4", <<5, 5>>, <<3, 7>>,
                               "Move").game
       IN  game = IF stale
                  THEN end_turn(capture(moved, "piece_1", "piece_4").game)
                  ELSE middle
    /\ acting = "piece_0"
    /\ phase = "idle"
    /\ tokens = << >>
    /\ board = MkBoard(0, 0, 0, 0, "", TRUE, EmptyMap, EmptyMap, {}, FALSE)
    /\ Fresh
    /\ log = [ops |-> 0, limit |-> MaxMoves, last |-> None, turn |-> << >>]
SpecMatch == InitMatch(FALSE) /\ [][NextMatch]_vars
SpecStale == InitMatch(TRUE) /\ [][NextMatch]_vars

\* ------------------------------------------------------------------- lexer
\* A script is the byte sequence of a &str. An ASCII byte is written as the
\* one-character string of its character, any other byte as the two
\* hexadecimal digits of its value: "à" is <<"C3", "A0">>.
\*
\* char::is_whitespace of `byte as char`, a char of U+0000..U+00FF: tab, line
\* feed, form feed, carriage return, space, U+0085 and U+00A0 (the vertical
\* tab has no spelling here).
is_whitespace(ch) == ch \in {"\t", "\n", "\f", "\r", " ", "85", "A0"}
\* str::is_char_boundary, the test `&input[start..end]` makes on both ends:
\* the byte at index is not one of the continuation bytes 0x80..0xBF.
is_char_boundary(input, index) ==
    LET Continuation ==
            {h \o l : h \in {"8", "9", "A", "B"},
                      l \in {"0", "1", "2", "3", "4", "5", "6", "7", "8",
                             "9", "A", "B", "C", "D", "E", "F"}}
    IN  \/ index = 0
        \/ index = Len(input)
        \/ index < Len(input) /\ input[index + 1] \notin Continuation
\* The String of a sequence of bytes or of chars U+0000..U+00FF, one spelling
\* after the other.
RECURSIVE Str(_)
Str(s) == IF s = << >> THEN "" ELSE Head(s) \o Str(Tail(s))
\* `while self.pos < bytes.len() && <bytes[self.pos] is one of over>
\* { self.pos += 1 }`: the position the loop ends at.
RECURSIVE WhileLoop(_, _, _)
WhileLoop(input, pos, over) ==
    IF pos < Len(input) /\ input[pos + 1] \in over
    THEN WhileLoop(input, pos + 1, over) ELSE pos
\* The bytes that occur in the input.
Bytes(input) == {input[i] : i \in DOMAIN input}
\* Lexer::skip_whitespace (lines 188-193): the new pos.
skip_whitespace(input, pos) ==
    WhileLoop(input, pos, {ch \in Bytes(input) : is_whitespace(ch)})
\* Lexer::skip_comment (lines 195-202): the new pos.
skip_comment(input, pos) ==
    IF pos < Len(input) /\ input[pos + 1] = "#"
    THEN WhileLoop(input, pos, Bytes(input) \ {"\n"}) ELSE pos
\* Lexer::read_word (lines 204-215): the word and the new pos; the slice
\* input[start..pos] panics when an end is not a char boundary.
read_word(input, pos) ==
    LET start == pos
        stop == {ch \in Bytes(input) : is_whitespace(ch)}
                \cup {";", "{", "}", "(", ")", ",", "#"}
        end == WhileLoop(input, pos, Bytes(input) \ stop)
    IN  [panicked |-> ~(is_char_boundary(input, start)
                        /\ is_char_boundary(input, end)),
         word |-> Str(SubSeq(input, start + 1, end)),
         pos |-> end]
\* The while loop of read_args (lines 230-259) from pos on; trimmed is
\* current.trim().
RECURSIVE read_args_loop(_, _, _, _, _)
read_args_loop(input, pos, current, depth, args) ==
    IF pos >= Len(input) THEN [args |-> args, pos |-> pos]
    ELSE
    LET ch == input[pos + 1]
        kept == {i \in DOMAIN current : ~is_whitespace(current[i])}
        trimmed == IF kept = {} THEN << >>
                   ELSE SubSeq(current,
                               CHOOSE i \in kept : \A j \in kept : i <= j,
                               CHOOSE i \in kept : \A j \in kept : j <= i)
        pushed == IF trimmed # << >> THEN Append(args, trimmed) ELSE args
    IN  CASE ch = "(" ->
               read_args_loop(input, pos + 1, Append(current, ch), depth + 1,
                              args)
          [] ch = ")" /\ depth = 0 -> [args |-> pushed, pos |-> pos + 1]
          [] ch = ")" /\ depth # 0 ->
               read_args_loop(input, pos + 1, Append(current, ch), depth - 1,
                              args)
          [] ch = "," /\ depth = 0 ->
               read_args_loop(input, pos + 1, << >>, depth, pushed)
          [] OTHER ->
               read_args_loop(input, pos + 1, Append(current, ch), depth,
                              args)
\* Lexer::read_args (lines 217-262): the arguments and the new pos.
read_args(input, pos) ==
    LET at == skip_whitespace(input, pos) IN
    IF at >= Len(input) \/ input[at + 1] # "("
    THEN [args |-> << >>, pos |-> at]
    ELSE read_args_loop(input, at + 1, << >>, 0, << >>)
\* The digit loop of from_str: acc * 10 + sign * digit with checked_mul,
\* checked_add and checked_sub between i32::MIN and i32::MAX; None for a char
\* that is no digit and for an overflow.
RECURSIVE checked_digits(_, _, _)
checked_digits(digits, sign, acc) ==
    IF digits = << >> THEN Some(acc)
    ELSE
    LET c == Head(digits)
        d == CHOOSE v \in 0..9 :
                 <<"0", "1", "2", "3", "4", "5", "6", "7", "8", "9">>[v + 1] = c
    IN  IF c \notin {"0", "1", "2", "3", "4", "5", "6", "7", "8", "9"}
        THEN None
        ELSE IF sign = 1 /\ (acc > 214748364 \/ (acc = 214748364 /\ d > 7))
        THEN None
        ELSE IF sign = -1 /\ (acc < -214748364 \/ (acc = -214748364 /\ d > 8))
        THEN None
        ELSE checked_digits(Tail(digits), sign, acc * 10 + sign * d)
\* <i32 as FromStr>::from_str and <usize as FromStr>::from_str: an optional
\* sign ("-" for the signed type only), then digits. A usize numeral above
\* i32::MAX is an overflow on every target when it has more than 20 digits;
\* a shorter one has a value no integer of this model holds and is left
\* without one.
from_str(s, is_signed_ty) ==
    LET signed == s # << >> /\ (Head(s) = "+" \/ (Head(s) = "-" /\ is_signed_ty))
        digits == IF signed THEN Tail(s) ELSE s
        sign == IF signed /\ Head(s) = "-" THEN -1 ELSE 1
        value == checked_digits(digits, sign, 0)
    IN  IF digits = << >> THEN None
        ELSE IF is_signed_ty \/ IsSome(value) THEN value
        ELSE CASE \E i \in DOMAIN digits :
                     digits[i] \notin {"0", "1", "2", "3", "4", "5", "6",
                                       "7", "8", "9"} -> None
               [] Len(digits) > 20 -> None
\* The closure parse_i32 of parse_token (line 300).
parse_i32_OrOne(s) ==
    LET r == from_str(s, TRUE) IN IF IsSome(r) THEN Unwrap(r) ELSE 1
parse_i32(s) ==
    LET r == from_str(s, TRUE) IN IF IsSome(r) THEN Unwrap(r) ELSE 0
\* Lexer::parse_token (lines 299-411).
parse_token(word, args) ==
    LET get_xy == IF Len(args) >= 2
                  THEN <<parse_i32(args[1]), parse_i32(args[2])>>
                  ELSE <<0, 0>>
        xy(kind) == Tok(kind, get_xy[1], get_xy[2], "")
        name(kind) == IF Len(args) >= 1
                      THEN Tok(kind, 0, 0, Str(args[1])) ELSE End
    IN  CASE word = "take-move" -> xy("TakeMove")
          [] word = "move" -> xy("Move")
          [] word = "take" -> xy("Take")
          [] word = "catch" -> xy("Catch")
          [] word = "shift" -> xy("Shift")
          [] word = "jump" -> xy("Jump")
          [] word = "anchor" -> xy("Anchor")
          [] word = "observe" -> xy("Observe")
          [] word = "peek" -> xy("Peek")
          [] word = "enemy" -> xy("Enemy")
          [] word = "friendly" -> xy("Friendly")
          [] word = "danger" -> xy("Danger")
          [] word = "bound" -> xy("Bound")
          [] word = "edge" -> xy("Edge")
          [] word = "edge-top" -> xy("EdgeTop")
          [] word = "edge-bottom" -> xy("EdgeBottom")
          [] word = "edge-left" -> xy("EdgeLeft")
          [] word = "edge-right" -> xy("EdgeRight")
          [] word = "corner" -> xy("Corner")
          [] word = "corner-top-left" -> xy("CornerTopLeft")
          [] word = "corner-top-right" -> xy("CornerTopRight")
          [] word = "corner-bottom-left" -> xy("CornerBottomLeft")
          [] word = "corner-bottom-right" -> xy("CornerBottomRight")
          [] word = "piece-on" ->
               IF Len(args) >= 3
               THEN Tok("PieceOn", parse_i32(args[2]), parse_i32(args[3]),
                        Str(args[1]))
               ELSE End
          [] word = "check" -> Tok("Check", 0, 0, "")
          [] word = "piece" -> name("Piece")
          [] word = "if-state" ->
               IF Len(args) >= 2
               THEN IfState(Str(args[1]), parse_i32(args[2])) ELSE End
          [] word = "set-state" ->
               IF Len(args) >= 2
               THEN SetState(Str(args[1]), parse_i32(args[2]))
               ELSE SetStateReset
          [] word = "transition" -> name("Transition")
          [] word = "repeat" ->
               IF Len(args) >= 1
               THEN LET n == from_str(args[1], FALSE) IN
                    Repeat(IF IsSome(n) THEN Unwrap(n) ELSE 1)
               ELSE Repeat(1)
          [] word = "do" -> Do
          [] word = "while" -> While
          [] word = "jmp" -> name("Jmp")
          [] word = "jne" -> name("Jne")
          [] word = "label" -> name("Label")
          [] word = "not" -> Not
          [] word = "end" -> End
          [] OTHER -> End
\* Lexer::next_token (lines 264-297): the token, None at the end of the
\* input, and the new pos; panicked when read_word panics.
RECURSIVE next_token(_, _)
next_token(input, pos) ==
    LET at == skip_whitespace(input,
                  skip_comment(input, skip_whitespace(input, pos)))
        single(token) == [panicked |-> FALSE, token |-> Some(token),
                          pos |-> at + 1]
    IN  IF at >= Len(input)
        THEN [panicked |-> FALSE, token |-> None, pos |-> at]
        ELSE CASE input[at + 1] = ";" -> single(Semicolon)
               [] input[at + 1] = "{" -> single(OpenBrace)
               [] input[at + 1] = "}" -> single(CloseBrace)
               [] input[at + 1] = "#" ->
                    next_token(input, skip_comment(input, at))
               [] OTHER ->
                    LET w == read_word(input, at) IN
                    IF w.panicked
                    THEN [panicked |-> TRUE, token |-> None, pos |-> w.pos]
                    ELSE IF w.word = "" THEN next_token(input, w.pos + 1)
                    ELSE LET a == read_args(input, w.pos) IN
                         [panicked |-> FALSE,
                          token |-> Some(parse_token(w.word, a.args)),
                          pos |-> a.pos]

\* Interpreter::parse up to its loop (lines 443-445): a Lexer on the input
\* and the tokens cleared. The input is one statement in a frame, and the
\* statement it was written from is kept in the log. The statement is a word
\* followed by nothing, or by an argument list of at most MaxArgs arguments
\* that is closed or left open; the frame puts text before and after it.
parse ==
    /\ phase = "parsed"
    /\ log.last = None
    /\ LET
        Words ==
            { <<"t", "a", "k", "e", "-", "m", "o", "v", "e">>,
              <<"m", "o", "v", "e">>,
              <<"t", "a", "k", "e">>,
              <<"c", "a", "t", "c", "h">>,
              <<"s", "h", "i", "f", "t">>,
              <<"j", "u", "m", "p">>,
              <<"a", "n", "c", "h", "o", "r">>,
              <<"o", "b", "s", "e", "r", "v", "e">>,
              <<"p", "e", "e", "k">>,
              <<"e", "n", "e", "m", "y">>,
              <<"f", "r", "i", "e", "n", "d", "l", "y">>,
              <<"p", "i", "e", "c", "e", "-", "o", "n">>,
              <<"d", "a", "n", "g", "e", "r">>,
              <<"c", "h", "e", "c", "k">>,
              <<"b", "o", "u", "n", "d">>,
              <<"e", "d", "g", "e">>,
              <<"e", "d", "g", "e", "-", "t", "o", "p">>,
              <<"e", "d", "g", "e", "-", "b", "o", "t", "t", "o", "m">>,
              <<"e", "d", "g", "e", "-", "l", "e", "f", "t">>,
              <<"e", "d", "g", "e", "-", "r", "i", "g", "h", "t">>,
              <<"c", "o", "r", "n", "e", "r">>,
              <<"c", "o", "r", "n", "e", "r", "-", "t", "o", "p", "-", "l", "e", "f", "t">>,
              <<"c", "o", "r", "n", "e", "r", "-", "t", "o", "p", "-", "r", "i", "g", "h", "t">>,
              <<"c", "o", "r", "n", "e", "r", "-", "b", "o", "t", "t", "o", "m", "-", "l", "e", "f", "t">>,
              <<"c", "o", "r", "n", "e", "r", "-", "b", "o", "t", "t", "o", "m", "-", "r", "i", "g", "h", "t">>,
              <<"p", "i", "e", "c", "e">>,
              <<"i", "f", "-", "s", "t", "a", "t", "e">>,
              <<"s", "e", "t", "-", "s", "t", "a", "t", "e">>,
              <<"t", "r", "a", "n", "s", "i", "t", "i", "o", "n">>,
              <<"r", "e", "p", "e", "a", "t">>,
              <<"d", "o">>,
              <<"w", "h", "i", "l", "e">>,
              <<"j", "m", "p">>,
              <<"j", "n", "e">>,
              <<"l", "a", "b", "e", "l">>,
              <<"n", "o", "t">>,
              <<"e", "n", "d">>,
              <<"f", "o", "o">> }
        \* Arguments that are integers of i32, with blanks around them or a sign,
        \* and arguments that are none: a name, a numeral beyond every integer type,
        \* a parenthesised numeral, two numerals.
        Arguments ==
            { [text |-> <<"1">>, int |-> TRUE],
              [text |-> <<"-", "2">>, int |-> TRUE],
              [text |-> <<" ", "+", "3", " ">>, int |-> TRUE],
              [text |-> <<"x">>, int |-> FALSE],
              [text |-> <<"9", "9", "9", "9", "9", "9", "9", "9", "9", "9", "9", "9",
                          "9", "9", "9", "9", "9", "9", "9", "9", "9">>,
               int |-> FALSE],
              [text |-> <<"(", "1", ")">>, int |-> FALSE],
              [text |-> <<"1", " ", "2">>, int |-> FALSE] }
        \* Argument lists: any two arguments, then arguments of the first and the
        \* fourth kind.
        ArgumentLists ==
            UNION { { a \in [1..n -> Arguments] :
                        \A i \in 3..n : a[i].text \in {<<"1">>, <<"x">>} }
                    : n \in 0..MaxArgs }
        \* Frames: nothing; a comment line before and a semicolon after; a stray
        \* closing parenthesis and comma before and an unterminated comment after;
        \* a Korean word before and a closing brace after; "à" before.
        Frames ==
            { [before |-> << >>, after |-> << >>, tokens |-> 0, ascii |-> TRUE],
              [before |-> <<"#", " ", "a", "(", "\n">>, after |-> <<";">>,
               tokens |-> 0, ascii |-> TRUE],
              [before |-> <<")", " ", ",", " ">>, after |-> <<" ", "#", " ", "x">>,
               tokens |-> 0, ascii |-> TRUE],
              [before |-> <<"EA", "B0", "80", "\n">>, after |-> <<"}">>,
               tokens |-> 1, ascii |-> FALSE],
              [before |-> <<"C3", "A0", " ">>, after |-> << >>,
               tokens |-> 0, ascii |-> FALSE] }
        \* The text of an argument list: the texts with commas between them.
        RECURSIVE Joined(_)
        Joined(list) ==
            IF list = << >> THEN << >>
            ELSE IF Len(list) = 1 THEN list[1].text
            ELSE list[1].text \o <<",">> \o Joined(Tail(list))
        \* The script of a statement s = [frame, word, list, parens, closed].
        Script(s) ==
            s.frame.before \o s.word
            \o (IF s.parens THEN <<"(">> \o Joined(s.list) ELSE << >>)
            \o (IF s.parens /\ s.closed THEN <<")">> ELSE << >>)
            \o s.frame.after
       IN
       \E frame \in Frames, word \in Words, list \in ArgumentLists,
          parens \in BOOLEAN, closed \in BOOLEAN :
          /\ parens \/ (list = << >> /\ closed)
          /\ LET s == [frame |-> frame, word |-> word, list |-> list,
                       parens |-> parens, closed |-> closed]
             IN  /\ lexer' = [input |-> Script(s), pos |-> 0]
                 /\ log' = [log EXCEPT !.last = Some(s)]
    /\ tokens' = << >>
    /\ phase' = "lexing"
    /\ UNCHANGED <<board, labels, locals, trace, calls, game, acting,
                 legal_moves>>
\* One iteration of `while let Some(token) = lexer.next_token()` (lines
\* 446-448): the token is pushed, or parse returns, or the lexer panics.
NextToken ==
    /\ phase = "lexing"
    /\ LET r == next_token(lexer.input, lexer.pos) IN
       /\ lexer' = [lexer EXCEPT !.pos = r.pos]
       /\ tokens' = IF IsSome(r.token) THEN Append(tokens, Unwrap(r.token))
                    ELSE tokens
       /\ phase' = IF r.panicked THEN "panicked"
                   ELSE IF IsSome(r.token) THEN "lexing" ELSE "lexed"
    /\ UNCHANGED <<board, labels, locals, trace, calls, game, acting,
                 legal_moves, log>>
\* An interpreter that holds the tokens of an earlier script, and parse
\* about to be called.
SpecParse ==
    /\ InitScripts({Case(RookSlideScript, TestBoard(EmptyMap))})
    /\ [][parse \/ NextToken]_vars

\* =================================================================== claims
\* The locals after the k-th loop iteration of the trace.
Post(k) == IF k = Len(trace) THEN Cur ELSE trace[k + 1].pre
Steps == 1..Len(trace)
\* The token fetched by the k-th iteration.
TokenOf(k) == tokens[trace[k].i + 1]
\* The k-th iteration appended an activation (jump may first pop a Take).
Emits(k) ==
    LET before == trace[k].pre.activations
        after == Post(k).activations
    IN  /\ after # before
        /\ ~(before # << >> /\ after = Front(before))
\* The k-th iteration dispatched an opcode outside the exception set and left
\* last_value false.
FailsAt(k) ==
    /\ trace[k].kind = "dispatch"
    /\ ~IsException(TokenOf(k))
    /\ ~Post(k).last_value
    /\ ~Post(k).panicked
\* The index of the first `;`, or `}` without a `{` before it, among the
\* tokens from index j on (depth: the `{` still open); Len(toks) if none.
RECURSIVE Boundary(_, _, _)
Boundary(toks, j, depth) ==
    IF j >= Len(toks) THEN Len(toks)
    ELSE CASE toks[j + 1].k = "Semicolon" -> j
           [] toks[j + 1].k = "CloseBrace" ->
                IF depth = 0 THEN j ELSE Boundary(toks, j + 1, depth - 1)
           [] toks[j + 1].k = "OpenBrace" -> Boundary(toks, j + 1, depth + 1)
           [] OTHER -> Boundary(toks, j + 1, depth)
Min(a, b) == IF a < b THEN a ELSE b

RECURSIVE NextSemi(_, _)
NextSemi(toks, j) ==
    IF j >= Len(toks) \/ toks[j + 1].k = "Semicolon" THEN Min(j, Len(toks))
    ELSE NextSemi(toks, j + 1)
\* The tokens of indices j..e-1 hold only complete `{ ... }` blocks.
RECURSIVE CompleteBlocks(_, _, _, _)
CompleteBlocks(toks, j, e, depth) ==
    IF j >= e THEN depth = 0
    ELSE CASE toks[j + 1].k = "OpenBrace" ->
                CompleteBlocks(toks, j + 1, e, depth + 1)
           [] toks[j + 1].k = "CloseBrace" ->
                depth > 0 /\ CompleteBlocks(toks, j + 1, e, depth - 1)
           [] OTHER -> CompleteBlocks(toks, j + 1, e, depth)
\* The braces are balanced within each `;`-delimited chain.
RECURSIVE BalancedChains(_, _, _)
BalancedChains(toks, j, depth) ==
    IF j >= Len(toks) THEN depth = 0
    ELSE CASE toks[j + 1].k = "Semicolon" ->
                depth = 0 /\ BalancedChains(toks, j + 1, 0)
           [] toks[j + 1].k = "OpenBrace" ->
                BalancedChains(toks, j + 1, depth + 1)
           [] toks[j + 1].k = "CloseBrace" ->
                depth > 0 /\ BalancedChains(toks, j + 1, depth - 1)
           [] OTHER -> BalancedChains(toks, j + 1, depth)
\* The index of the `{` matching the `}` at index c, scanning down from j
\* (depth: the `}` passed and still unmatched); -1 if there is none.
RECURSIVE MatchOpenFrom(_, _, _)
MatchOpenFrom(toks, j, depth) ==
    IF j < 0 THEN -1
    ELSE CASE toks[j + 1].k = "CloseBrace" ->
                MatchOpenFrom(toks, j - 1, depth + 1)
           [] toks[j + 1].k = "OpenBrace" ->
                IF depth = 0 THEN j ELSE MatchOpenFrom(toks, j - 1, depth - 1)
           [] OTHER -> MatchOpenFrom(toks, j - 1, depth)
MatchOpen(toks, c) == MatchOpenFrom(toks, c - 1, 0)
\* No token of the script moves pc other than forward by one.
NoJumps(toks) ==
    \A j \in 1..Len(toks) : toks[j].k \notin {"Repeat", "While", "Jmp", "Jne"}
\* The k-th iteration passed the `}` at index c with a scope restore: it
\* dispatched it, or it is a chain skip that ended on it.
ClosesAt(k, c) ==
    /\ c < Len(tokens)
    /\ tokens[c + 1].k = "CloseBrace"
    /\ \/ trace[k].kind = "dispatch" /\ trace[k].i = c
       \/ /\ trace[k].kind = "skip"
          /\ c = Boundary(tokens, trace[k].i + 1,
                          trace[k].pre.num_of_open_brace)

\* C2: when the chain-termination rule fires after a failed operator, outside
\* any open scope, and only complete `{ ... }` blocks lie between the fetched
\* token and the next `;`,
\* nothing is emitted and every token in front of that `;` is skipped, also
\* when the fetched token is itself a `{`: the next iteration fetches no
\* token in front of the `;`.
C2_SkipToSemicolon ==
    \A k \in Steps :
        ( /\ trace[k].kind = "skip"
          /\ k > 1
          /\ FailsAt(k - 1)
          /\ trace[k].pre.scope_stack = << >>
          /\ CompleteBlocks(tokens, trace[k].i,
                            NextSemi(tokens, trace[k].i), 0) )
        => /\ Post(k).activations = trace[k].pre.activations
           /\ Post(k).pc >= NextSemi(tokens, trace[k].i)

\* C3: in a script whose braces are balanced within each chain (and, here,
\* without repeat, while, jmp and jne), a `}` that restores the anchor
\* restores the one saved by its own `{`, and every scope pushed has been
\* popped when execute returns.
C3_ScopeNesting ==
    (BalancedChains(tokens, 0, 0) /\ NoJumps(tokens))
    => /\ \A k \in Steps : \A c \in 0..(Len(tokens) - 1) :
             (ClosesAt(k, c) /\ trace[k].pre.scope_stack # << >>)
             => /\ Last(trace[k].pre.scope_stack)[3] - 1 = MatchOpen(tokens, c)
                /\ Post(k).anchor_x = Last(trace[k].pre.scope_stack)[1]
                /\ Post(k).anchor_y = Last(trace[k].pre.scope_stack)[2]
       /\ phase = "returned" => scope_stack = << >>

\* C4: in such a script, a chain skip that starts inside a `{ ... }` block
\* (the operator that failed stands in it) skips only the rest of that block:
\* it emits nothing and ends behind the block's `}`, with the anchor saved at
\* the block's `{`, last_value true and the chain counter unchanged.
C4_SkipRestOfBlock ==
    (BalancedChains(tokens, 0, 0) /\ NoJumps(tokens))
    => \A k \in Steps :
          LET c == Boundary(tokens, trace[k].i, 0)
              pre == trace[k].pre
          IN  ( /\ trace[k].kind = "skip"
                /\ c < Len(tokens)
                /\ tokens[c + 1].k = "CloseBrace" )
              => /\ Post(k).pc = c + 1
                 /\ Post(k).activations = pre.activations
                 /\ Post(k).last_value
                 /\ Post(k).index_of_expression_chain =
                        pre.index_of_expression_chain
                 /\ pre.scope_stack # << >>
                 /\ Last(pre.scope_stack)[3] - 1 = MatchOpen(tokens, c)
                 /\ Post(k).anchor_x = Last(pre.scope_stack)[1]
                 /\ Post(k).anchor_y = Last(pre.scope_stack)[2]

\* The k-th iteration passed a `;`: it dispatched one, or it is a chain skip
\* whose last consumed token is one.
PassesSemi(k) ==
    \/ trace[k].kind = "dispatch" /\ TokenOf(k).k = "Semicolon"
    \/ /\ trace[k].kind = "skip"
       /\ tokens[Post(k).pc].k = "Semicolon"

\* C5: immediately after a `;` has been passed, by dispatch or by a chain
\* skip, the anchor is (0,0), pending_tags is empty, do_index and
\* last_take_pos are unset, last_value is true and the chain counter has
\* advanced by one.
C5_ChainReset ==
    \A k \in Steps :
        PassesSemi(k)
        => /\ Post(k).anchor_x = 0
           /\ Post(k).anchor_y = 0
           /\ Post(k).pending_tags = << >>
           /\ Post(k).do_index = None
           /\ Post(k).last_take_pos = None
           /\ Post(k).last_value
           /\ Post(k).index_of_expression_chain =
                  trace[k].pre.index_of_expression_chain + 1
\* A `;` consumed by a chain skip that started with a moved anchor, after an
\* activation had been emitted.
C5_Witness ==
    \E k \in Steps :
        /\ trace[k].kind = "skip"
        /\ PassesSemi(k)
        /\ trace[k].pre.anchor_x # 0
        /\ trace[k].pre.activations # << >>

\* The script is a slide and the board holds at most one piece besides the
\* acting one.
IsSlide ==
    /\ Len(tokens) = 3
    /\ tokens[1].k = "TakeMove"
    /\ <<tokens[1].x, tokens[1].y>> # <<0, 0>>
    /\ tokens[2] = Repeat(1)
    /\ tokens[3] = Semicolon
    /\ Cardinality(DOMAIN board.pieces) <= 1
    /\ <<board.piece_x, board.piece_y>> \notin DOMAIN board.pieces
\* The offsets k*(dx,dy), (k+1)*(dx,dy), ... over the empty in-bounds squares
\* from the acting piece, closed by the first occupied square if an enemy
\* stands on it.
RECURSIVE SlideRun(_, _, _, _)
SlideRun(b, dx, dy, k) ==
    LET x == b.piece_x + k * dx
        y == b.piece_y + k * dy
    IN  IF x < 0 \/ x >= b.board_width \/ y < 0 \/ y >= b.board_height
        THEN << >>
        ELSE IF <<x, y>> \in DOMAIN b.pieces
        THEN IF b.pieces[<<x, y>>].is_white # b.is_white
             THEN << <<k * dx, k * dy>> >>
             ELSE << >>
        ELSE << <<k * dx, k * dy>> >> \o SlideRun(b, dx, dy, k + 1)
Offsets(acts) == [n \in 1..Len(acts) |-> <<acts[n].dx, acts[n].dy>>]
IsPrefix(p, q) == Len(p) <= Len(q) /\ p = SubSeq(q, 1, Len(p))

\* C6: `take-move(dx,dy) repeat(1);` with (dx,dy) # (0,0), from any square,
\* with at most one friendly or enemy blocker, runs to its end without a
\* fatal error and returns exactly the offsets k*(dx,dy), k = 1, 2, ..., of
\* the maximal run of empty in-bounds squares, followed by the blocker's
\* square if and only if the blocker is an enemy; while it runs, what it has
\* emitted is a prefix of that list.
C6_SlideDeterminism ==
    IsSlide
    => LET run == SlideRun(board, tokens[1].x, tokens[1].y, 1) IN
       /\ phase # "panicked"
       /\ Len(trace) < MaxSteps
       /\ IsPrefix(Offsets(activations), run)
       /\ \A n \in 1..Len(activations) :
             activations[n].move_type = "TakeMove"
       /\ phase = "returned" => Offsets(activations) = run
\* A returned slide that crossed an empty square and ended with the capture
\* of an enemy blocker, with further squares behind the blocker.
C6_Witness ==
    /\ IsSlide
    /\ phase = "returned"
    /\ Len(activations) = 2
    /\ has_enemy(board, board.piece_x + activations[2].dx,
                 board.piece_y + activations[2].dy)
    /\ in_bounds(board, board.piece_x + 3 * tokens[1].x,
                 board.piece_y + 3 * tokens[1].y)

\* The number of `;` in front of index j: the chain the token at j stands in.
StaticChain(toks, j) ==
    Cardinality({ n \in 1..j : toks[n].k = "Semicolon" })
\* The k-th iteration ended in the fatal error of a failed label lookup.
PanicsAt(k) == k = Len(trace) /\ phase = "panicked"
\* The k-th iteration dispatched a jmp or jne.
IsJump(k) ==
    trace[k].kind = "dispatch" /\ TokenOf(k).k \in {"Jmp", "Jne"}
\* Its condition held: last_value true for jmp, false for jne.
JumpDue(k) ==
    /\ IsJump(k)
    /\ (TokenOf(k).k = "Jmp") = trace[k].pre.last_value
\* It transferred control.
JumpTaken(k) == JumpDue(k) /\ ~PanicsAt(k)

\* C7: every jmp or jne that transfers control lands on a token of the
\* `;`-delimited chain the jump token itself stands in.
C7_JumpStaysInChain ==
    \A k \in Steps :
        JumpTaken(k)
        => StaticChain(tokens, Post(k).pc) = StaticChain(tokens, trace[k].i)

\* The locals other than pc and last_value are those before the iteration.
KeepsRest(k) ==
    [Post(k) EXCEPT !.pc = 0, !.last_value = TRUE]
        = [trace[k].pre EXCEPT !.pc = 0, !.last_value = TRUE]

\* C8: a dispatched jmp(L) (jne(L)) whose lookup succeeds continues at the
\* token after a label(L) of the chain counted by the chain counter if
\* last_value was true (false), and at the token after the jump otherwise;
\* last_value is true afterwards and nothing else changes, so no token in
\* between is dispatched. A label is dispatched whatever last_value is and
\* changes nothing.
C8_JumpSemantics ==
    \A k \in Steps :
        /\ (IsJump(k) /\ ~PanicsAt(k))
           => /\ Post(k).last_value
              /\ KeepsRest(k)
              /\ IF JumpDue(k)
                 THEN /\ Post(k).pc >= 1
                      /\ tokens[Post(k).pc] = Label(TokenOf(k).s)
                      /\ StaticChain(tokens, Post(k).pc - 1)
                            = trace[k].pre.index_of_expression_chain
                 ELSE Post(k).pc = trace[k].i + 1
              /\ k < Len(trace) => trace[k + 1].i = Post(k).pc
        /\ TokenOf(k).k = "Label"
           => /\ trace[k].kind = "dispatch"
              /\ Post(k) = [trace[k].pre EXCEPT !.pc = trace[k].i + 1]
\* A run that returned activations after a jne had jumped over at least one
\* token.
C8_Witness ==
    /\ phase = "returned"
    /\ activations # << >>
    /\ \E k \in Steps :
          /\ JumpTaken(k)
          /\ TokenOf(k).k = "Jne"
          /\ Post(k).pc > trace[k].i + 2

\* The iterations before the k-th that dispatched a `do` after which no `;`
\* has been passed.
DosBefore(k) ==
    { j \in 1..(k - 1) :
        /\ trace[j].kind = "dispatch"
        /\ TokenOf(j).k = "Do"
        /\ \A n \in j..(k - 1) : ~PassesSemi(n) }
Max(S) == CHOOSE x \in S : \A y \in S : y <= x

\* C9: `while` is dispatched whatever last_value is. Reached with last_value
\* true after a `do` dispatched since the last `;` was passed, it continues
\* at the token after the latest such `do`; reached with last_value false,
\* or with no such `do`, it does not jump. In every case last_value is true
\* afterwards, nothing else changes, and the token at which the run
\* continues is dispatched, not skipped.
C9_DoWhile ==
    \A k \in Steps :
        TokenOf(k).k = "While"
        => /\ trace[k].kind = "dispatch"
           /\ Post(k).last_value
           /\ KeepsRest(k)
           /\ Post(k).pc =
                  IF trace[k].pre.last_value /\ DosBefore(k) # {}
                  THEN trace[Max(DosBefore(k))].i + 1
                  ELSE trace[k].i + 1
           /\ k < Len(trace)
              => /\ trace[k + 1].kind = "dispatch"
                 /\ trace[k + 1].i = Post(k).pc
\* A loop whose `while` jumped back, then was reached with last_value false
\* and let the token behind it be dispatched.
C9_Witness ==
    \E k, n \in Steps :
        /\ k < n
        /\ n < Len(trace)
        /\ TokenOf(k).k = "While"
        /\ Post(k).pc <= trace[k].i
        /\ TokenOf(n).k = "While"
        /\ trace[n].i = trace[k].i
        /\ ~trace[n].pre.last_value
        /\ trace[n + 1].i = trace[n].i + 1

\* The k-th iteration dispatched a predicate.
IsPredicate(k) ==
    trace[k].kind = "dispatch" /\ TokenOf(k).k \in PredicateKinds
\* What that predicate evaluated to.
Evaluated(k) ==
    PredValue([trace[k].pre EXCEPT !.pc = @ + 1], board, TokenOf(k))
\* The token at index j exists and is outside the exception set.
IsOperatorAt(j) == j < Len(tokens) /\ ~IsException(tokens[j + 1])

\* C10: `not` is dispatched whatever last_value is, and inverts it. In
\* `P not X`, X is dispatched exactly when the predicate P evaluated to false
\* and skipped otherwise; in `P X`, X is dispatched exactly when P evaluated
\* to true.
C10_Not ==
    \A k \in Steps :
        /\ TokenOf(k).k = "Not"
           => /\ trace[k].kind = "dispatch"
              /\ Post(k).last_value = ~trace[k].pre.last_value
              /\ [Post(k) EXCEPT !.last_value = TRUE]
                    = [trace[k].pre EXCEPT !.pc = trace[k].i + 1,
                                           !.last_value = TRUE]
        /\ ( /\ IsPredicate(k)
             /\ k + 2 <= Len(trace)
             /\ tokens[trace[k].i + 2] = Not
             /\ IsOperatorAt(trace[k].i + 2) )
           => /\ trace[k + 2].i = trace[k].i + 2
              /\ (trace[k + 2].kind = "dispatch") = ~Evaluated(k)
        /\ ( /\ IsPredicate(k)
             /\ k + 1 <= Len(trace)
             /\ IsOperatorAt(trace[k].i + 1) )
           => /\ trace[k + 1].i = trace[k].i + 1
              /\ (trace[k + 1].kind = "dispatch") = Evaluated(k)
\* `P not X` with P false, X dispatched and emitting.
C10_Witness ==
    \E k \in Steps :
        /\ IsPredicate(k)
        /\ ~Evaluated(k)
        /\ k + 2 <= Len(trace)
        /\ tokens[trace[k].i + 2] = Not
        /\ IsOperatorAt(trace[k].i + 2)
        /\ trace[k + 2].kind = "dispatch"
        /\ Emits(k + 2)

\* The tag a dispatched transition or set-state token stands for.
TagOf(t) ==
    IF t.k = "Transition" THEN TransitionTag(t.s) ELSE SetStateTag(t.s, t.x)
\* The k-th iteration dispatched a token of kind kd.
Dispatched(k, kd) == trace[k].kind = "dispatch" /\ TokenOf(k).k = kd
\* The tags of the transition and set-state tokens dispatched in iterations
\* 1..k since the last `;` was passed (and, with scoped, since the last `{`
\* was dispatched), in that order, a set-state-reset taking away the latest
\* one still there.
RECURSIVE TagsSince(_, _)
TagsSince(k, scoped) ==
    IF k = 0 THEN << >>
    ELSE IF PassesSemi(k) \/ (scoped /\ Dispatched(k, "OpenBrace")) THEN << >>
    ELSE LET before == TagsSince(k - 1, scoped) IN
         IF Dispatched(k, "Transition") \/ Dispatched(k, "SetState")
         THEN Append(before, TagOf(TokenOf(k)))
         ELSE IF Dispatched(k, "SetStateReset") /\ before # << >>
         THEN Front(before)
         ELSE before
\* The activation the k-th iteration emitted.
Emitted(k) == Last(Post(k).activations)
\* Every activation of the list of a call that has been entered was emitted
\* by some iteration of that call.
AllEmitted ==
    phase # "parsed"
    => \A n \in 1..Len(activations) :
          \E k \in Steps : Emits(k) /\ Emitted(k) = activations[n]

\* C11 as stated: the tags of every activation are those of the transition
\* and set-state tokens executed since the last `;` or scope entry,
\* whichever came later, less those taken away by set-state-reset.
C11_Original ==
    \A k \in Steps : Emits(k) => Emitted(k).tags = TagsSince(k - 1, TRUE)

\* C11 as amended: the tags of every activation are, in execution order,
\* those of the transition and set-state tokens executed since the last `;`
\* was passed, less those taken away by set-state-reset; entering or leaving
\* a scope changes nothing.
C11_TagsSinceSemicolon ==
    /\ AllEmitted
    /\ \A k \in Steps : Emits(k) => Emitted(k).tags = TagsSince(k - 1, FALSE)
\* An activation emitted inside a scope with a tag pushed before the scope
\* was entered and none pushed since.
C11_Witness ==
    \E k \in Steps :
        /\ Emits(k)
        /\ Emitted(k).tags # << >>
        /\ trace[k].pre.scope_stack # << >>
        /\ TagsSince(k - 1, TRUE) = << >>

\* The iterations before the k-th that dispatched a transition or set-state
\* after which no `;` has been passed.
PushesBefore(k) ==
    { j \in 1..(k - 1) :
        /\ Dispatched(j, "Transition") \/ Dispatched(j, "SetState")
        /\ \A n \in j..(k - 1) : ~PassesSemi(n) }

\* C12: an emitted activation carries pending_tags as it stood when the
\* iteration began; no later iteration alters an activation already on the
\* list (jump may take the last one away); and every tag of an activation
\* was pushed by a token dispatched since the last `;` was passed.
C12_TagSnapshot ==
    \A k \in Steps :
        /\ Emits(k)
           => /\ Emitted(k).tags = trace[k].pre.pending_tags
              /\ \A n \in 1..Len(Emitted(k).tags) :
                    \E j \in PushesBefore(k) :
                        Emitted(k).tags[n] = TagOf(TokenOf(j))
        /\ \/ IsPrefix(trace[k].pre.activations, Post(k).activations)
           \/ /\ Dispatched(k, "Jump")
              /\ trace[k].pre.activations # << >>
              /\ IsPrefix(Front(trace[k].pre.activations),
                          Post(k).activations)
\* A run with an activation emitted before a tag was pushed, one after it in
\* the same chain, and one in the next chain.
C12_Witness ==
    \E k, n, q \in Steps :
        /\ k < n /\ n < q
        /\ Emits(k) /\ Emits(n) /\ Emits(q)
        /\ Emitted(k).tags = << >>
        /\ Emitted(n).tags # << >>
        /\ \E j \in (n + 1)..(q - 1) : PassesSemi(j)
        /\ Emitted(q).tags = << >>
        /\ Len(activations) = 3
        /\ activations[1].tags = << >>
        /\ activations[2].tags # << >>

\* The square the token of the k-th iteration aims at.
TargetX(k) == board.piece_x + trace[k].pre.anchor_x + TokenOf(k).x
TargetY(k) == board.piece_y + trace[k].pre.anchor_y + TokenOf(k).y
\* The list the k-th iteration found does not end with a Take.
NoTakeBefore(k) ==
    \/ trace[k].pre.activations = << >>
    \/ Last(trace[k].pre.activations).move_type # "Take"

\* C13: a jump dispatched while the activation list is empty or does not end
\* with a Take does not crash, emits nothing and leaves last_value false, so
\* that the chain ends as after any failed operator.
C13_JumpWithoutTake ==
    \A k \in Steps :
        (Dispatched(k, "Jump") /\ NoTakeBefore(k))
        => /\ ~PanicsAt(k)
           /\ ~Post(k).last_value
           /\ Post(k).activations = trace[k].pre.activations

\* C14: a jump emits only if the list ends with a Take and the target is an
\* empty in-bounds square; it then replaces that Take by one Jump at
\* anchor + (dx,dy) whose catch_to is the Take's offset, advances the anchor
\* and leaves last_value true.
C14_JumpAfterTake ==
    \A k \in Steps :
        (Dispatched(k, "Jump") /\ Emits(k))
        => LET pre == trace[k].pre
               t == TokenOf(k)
           IN  /\ ~NoTakeBefore(k)
               /\ is_empty(board, TargetX(k), TargetY(k))
               /\ Post(k).activations =
                      Append(Front(pre.activations),
                             Activation(pre.anchor_x + t.x, pre.anchor_y + t.y,
                                        "Jump", pre.pending_tags,
                                        Some(<<Last(pre.activations).dx,
                                               Last(pre.activations).dy>>)))
               /\ Post(k).anchor_x = pre.anchor_x + t.x
               /\ Post(k).anchor_y = pre.anchor_y + t.y
               /\ Post(k).last_value

\* The chain the token at index j stands in holds a label(l).
ChainDefines(toks, j, l) ==
    \E n \in 0..(Len(toks) - 1) :
        /\ toks[n + 1] = Label(l)
        /\ StaticChain(toks, n) = StaticChain(toks, j)

\* C15: a jmp or jne whose condition holds, in a chain that defines no label
\* of that name, ends execute in a fatal error: it neither continues nor
\* jumps to a label of another chain, and no activation list is returned.
C15_MissingLabelIsFatal ==
    \A k \in Steps :
        (JumpDue(k) /\ ~ChainDefines(tokens, trace[k].i, TokenOf(k).s))
        => PanicsAt(k)

\* What stands on the square the k-th iteration aims at.
OnBoard(k) ==
    /\ 0 <= TargetX(k) /\ TargetX(k) < board.board_width
    /\ 0 <= TargetY(k) /\ TargetY(k) < board.board_height
Occupied(k) == <<TargetX(k), TargetY(k)>> \in DOMAIN board.pieces
EnemyThere(k) ==
    /\ Occupied(k)
    /\ board.pieces[<<TargetX(k), TargetY(k)>>].is_white # board.is_white
FriendlyThere(k) ==
    /\ Occupied(k)
    /\ board.pieces[<<TargetX(k), TargetY(k)>>].is_white = board.is_white
\* The locals after the k-th iteration, had it only fetched its token.
OnlyFetched(k) == [trace[k].pre EXCEPT !.pc = trace[k].i + 1]
\* The offset of the square the k-th iteration aims at.
OffX(k) == trace[k].pre.anchor_x + TokenOf(k).x
OffY(k) == trace[k].pre.anchor_y + TokenOf(k).y

\* C16: a dispatched take(dx,dy) does one of three things. On an enemy it
\* appends a Take at anchor + (dx,dy), records that offset as last_take_pos,
\* advances the anchor and leaves last_value true; on an empty in-bounds
\* square it only advances the anchor and leaves last_value true; on a
\* friendly piece or off the board it only sets last_value false.
C16_TakeOutcomes ==
    \A k \in Steps :
        Dispatched(k, "Take")
        => Post(k) =
             IF EnemyThere(k)
             THEN [OnlyFetched(k) EXCEPT
                     !.activations =
                         Append(@, Activation(OffX(k), OffY(k), "Take",
                                              trace[k].pre.pending_tags,
                                              None)),
                     !.last_take_pos = Some(<<OffX(k), OffY(k)>>),
                     !.anchor_x = OffX(k), !.anchor_y = OffY(k),
                     !.last_value = TRUE]
             ELSE IF OnBoard(k) /\ ~Occupied(k)
             THEN [OnlyFetched(k) EXCEPT
                     !.anchor_x = OffX(k), !.anchor_y = OffY(k),
                     !.last_value = TRUE]
             ELSE [OnlyFetched(k) EXCEPT !.last_value = FALSE]
\* A run in which take met an empty square, then an enemy, then the edge.
C16_Witness ==
    \E k, n, q \in Steps :
        /\ k < n /\ n < q
        /\ Dispatched(k, "Take") /\ OnBoard(k) /\ ~Occupied(k)
        /\ Dispatched(n, "Take") /\ EnemyThere(n)
        /\ Dispatched(q, "Take") /\ ~OnBoard(q)

\* Every piece of the board stands on a square of the board.
OccupancyInBounds ==
    \A sq \in DOMAIN board.pieces :
        /\ 0 <= sq[1] /\ sq[1] < board.board_width
        /\ 0 <= sq[2] /\ sq[2] < board.board_height
\* The activation a aims at a square whose occupancy fits its move type.
FitsBoard(a) ==
    LET sq == <<board.piece_x + a.dx, board.piece_y + a.dy>>
        occupied == sq \in DOMAIN board.pieces
        enemy == occupied /\ board.pieces[sq].is_white # board.is_white
    IN  /\ 0 <= sq[1] /\ sq[1] < board.board_width
        /\ 0 <= sq[2] /\ sq[2] < board.board_height
        /\ CASE a.move_type \in {"Move", "Jump"} -> ~occupied
             [] a.move_type \in {"Take", "Catch"} -> enemy
             [] a.move_type = "Shift" -> occupied
             [] a.move_type = "TakeMove" -> ~occupied \/ enemy
             [] OTHER -> FALSE

\* C17: on a board whose pieces stand within bounds, every activation of the
\* list - at any moment, so also when execute returns - aims at an in-bounds
\* square that is empty for Move and Jump, enemy-occupied for Take and
\* Catch, occupied for Shift and not friendly-occupied for TakeMove.
C17_ActivationsFitBoard ==
    OccupancyInBounds
    => \A n \in 1..Len(activations) : FitsBoard(activations[n])
\* A returned list holding a Move onto an empty square and a Take of an
\* enemy.
C17_Witness ==
    /\ phase = "returned"
    /\ OccupancyInBounds
    /\ \E n, q \in 1..Len(activations) :
          /\ activations[n].move_type = "Move"
          /\ activations[q].move_type = "Take"

Listed == phase = "listed" /\ calls # << >>
\* The square of the piece get_legal_moves was called with.
Origin == Unwrap(game.pieces[acting].pos)
\* The activations execute returned to get_legal_moves.
ScriptActivations == Unwrap(calls[Len(calls)].result)
Destination(a) == <<Origin[1] + a.dx, Origin[2] + a.dy>>
OnTheBoard(a) ==
    Destination(a)[1] \in 0..7 /\ Destination(a)[2] \in 0..7
\* The activations whose destination lies on the 8x8 board, in their order.
OnBoardActivations == SelectSeq(ScriptActivations, OnTheBoard)

\* C19: get_legal_moves returns, in activation order, exactly one legal move
\* for each activation of the piece's script whose destination lies on the
\* 8x8 board, with from the piece's square, to the destination, and the
\* activation's move type and tags; activations with a destination off the
\* board are dropped and nothing else is pruned, reordered or merged.
C19_LegalMovesFollowActivations ==
    Listed
    => /\ Len(legal_moves) = Len(OnBoardActivations)
       /\ \A n \in 1..Len(legal_moves) :
             /\ legal_moves[n].from = Origin
             /\ legal_moves[n].to = Destination(OnBoardActivations[n])
             /\ legal_moves[n].move_type = OnBoardActivations[n].move_type
             /\ legal_moves[n].tags = OnBoardActivations[n].tags
\* The moves of a piece have been listed: jumps over a piece first, plain
\* moves after them, to different squares.
C19_Witness ==
    /\ Listed
    /\ Len(legal_moves) >= 3
    /\ legal_moves[1].move_type = "Jump"
    /\ legal_moves[Len(legal_moves)].move_type = "Move"
    /\ legal_moves[1].to # legal_moves[2].to

\* The piece of the game on a square is of the side that does not own the
\* piece get_legal_moves was called with.
OpponentOn(sq) ==
    /\ sq \in DOMAIN game.board
    /\ game.board[sq] \in DOMAIN game.pieces
    /\ game.pieces[game.board[sq]].owner # game.pieces[acting].owner
\* C20: the capture flag of a generated legal move is true exactly when the
\* destination is occupied by a piece of the opponent, or when the move is a
\* Jump whose activation carries a catch_square.
C20_CaptureFlag ==
    (Listed /\ Len(legal_moves) = Len(OnBoardActivations))
    => \A n \in 1..Len(legal_moves) :
          legal_moves[n].is_capture
          <=> \/ OpponentOn(legal_moves[n].to)
              \/ /\ legal_moves[n].move_type = "Jump"
                 /\ IsSome(OnBoardActivations[n].catch_to)

\* ------------------------------------------------------------ game claims
\* The call made last, the game it found, and whether it was a call of op.
TheCall == Unwrap(log.last)
Pre == TheCall.pre
Did(op) == IsSome(log.last) /\ TheCall.op = op
\* C21: get_legal_moves returns an empty list for every piece that is not on
\* the board, does not belong to the side to move, or has no movement
\* capacity (stun > 0 or move_stack <= 0).
C21_NoMovesUnlessToMove ==
    (Did("get_legal_moves") /\ TheCall.ok
     /\ TheCall.args.piece_id \in DOMAIN Pre.pieces)
    => LET piece == Pre.pieces[TheCall.args.piece_id] IN
       (~IsSome(piece.pos) \/ piece.owner # Pre.turn \/ piece.stun > 0
        \/ piece.move_stack <= 0)
       => TheCall.out = << >>

\* capture was called with two different pieces of the game.
CapturedAPiece ==
    /\ Did("capture")
    /\ TheCall.args.attacker_id # TheCall.args.victim_id
    /\ TheCall.args.attacker_id \in DOMAIN Pre.pieces
    /\ TheCall.args.victim_id \in DOMAIN Pre.pieces
\* C25: capture(attacker, victim) with two different existing pieces leaves
\* the attacker with move_stack = old - 1 + the victim's move_stack and stun
\* = old + the victim's stun, removes the victim from the pieces and frees
\* its square, and changes no other piece and nothing else of the game.
C25_CaptureTransfersStacks ==
    CapturedAPiece
    => LET a == TheCall.args.attacker_id
           v == TheCall.args.victim_id
           victim == Pre.pieces[v]
       IN  /\ TheCall.ok
           /\ DOMAIN game.pieces = DOMAIN Pre.pieces \ {v}
           /\ game.pieces[a] =
                  [Pre.pieces[a] EXCEPT
                     !.move_stack = @ - 1 + victim.move_stack,
                     !.stun = @ + victim.stun]
           /\ \A id \in DOMAIN game.pieces \ {a} :
                  game.pieces[id] = Pre.pieces[id]
           /\ IsSome(victim.pos)
              => /\ Unwrap(victim.pos) \notin DOMAIN game.board
                 /\ \A sq \in DOMAIN Pre.board \ {Unwrap(victim.pos)} :
                        /\ sq \in DOMAIN game.board
                        /\ game.board[sq] = Pre.board[sq]
           /\ DOMAIN game.board \subseteq DOMAIN Pre.board
           /\ [game EXCEPT !.pieces = Pre.pieces, !.board = Pre.board] = Pre
\* A stunned piece that still has moves was captured by another piece.
C25_Witness ==
    /\ CapturedAPiece
    /\ Pre.pieces[TheCall.args.victim_id].stun > 0
    /\ Pre.pieces[TheCall.args.victim_id].move_stack > 0

\* How many specs of a kind a player's pocket holds in a game.
InPocket(g, player, kind) ==
    IF player \notin DOMAIN g.pockets THEN 0
    ELSE Cardinality({i \in 1..Len(g.pockets[player]) :
                         g.pockets[player][i] = kind})
\* The reasons for which a placement is refused.
PlacementRefused ==
    LET a == TheCall.args IN
    \/ Pre.turn # a.player
    \/ Pre.action_taken
    \/ IsSome(Pre.active_piece)
    \/ a.target \in DOMAIN Pre.board
    \/ a.kind = "Pawn" /\ a.target[2] = (IF a.player = 0 THEN 7 ELSE 0)
    \/ InPocket(Pre, a.player, a.kind) = 0
\* C26: place_piece fails and leaves the game unchanged when it is not the
\* player's turn, an action or a move was already made this turn, the target
\* is occupied, a pawn would stand on its promotion rank, or the pocket holds
\* no piece of the kind; otherwise it succeeds, takes exactly one piece of
\* that kind out of the player's pocket, puts exactly one new piece of that
\* kind and owner on the target, and marks the action as taken.
C26_PlacePiece ==
    Did("place_piece")
    => LET a == TheCall.args
           new == DOMAIN game.pieces \ DOMAIN Pre.pieces
       IN  IF PlacementRefused THEN ~TheCall.ok /\ game = Pre
           ELSE /\ TheCall.ok
                /\ \A kind \in {"Pawn", "Knight", "Queen", "Amazon"} :
                       InPocket(game, a.player, kind) =
                           InPocket(Pre, a.player, kind)
                           - (IF kind = a.kind THEN 1 ELSE 0)
                /\ Len(game.pockets[a.player])
                       = Len(Pre.pockets[a.player]) - 1
                /\ \A other \in DOMAIN Pre.pockets \ {a.player} :
                       game.pockets[other] = Pre.pockets[other]
                /\ Cardinality(new) = 1
                /\ \A id \in DOMAIN Pre.pieces :
                       id \in DOMAIN game.pieces
                       /\ game.pieces[id] = Pre.pieces[id]
                /\ \A id \in new :
                       /\ game.pieces[id].kind = a.kind
                       /\ game.pieces[id].owner = a.player
                       /\ game.pieces[id].pos = Some(a.target)
                       /\ game.board = MapWith(Pre.board, a.target, id)
                /\ game.action_taken
                /\ game.turn = Pre.turn
                /\ game.active_piece = Pre.active_piece
\* A pawn was placed from a pocket that held two pawns and a knight.
C26_Witness ==
    /\ Did("place_piece")
    /\ TheCall.ok
    /\ TheCall.args.kind = "Pawn"
    /\ InPocket(Pre, TheCall.args.player, "Pawn") = 2
    /\ InPocket(game, TheCall.args.player, "Knight") = 1

\* C27: setup_pocket succeeds and replaces the player's pocket by the given
\* specs exactly when their scores sum to at most 39; otherwise it returns
\* an error and leaves every pocket, and the rest of the game, unchanged.
C27_SetupPocket ==
    Did("setup_pocket")
    => LET a == TheCall.args IN
       IF total_score(a.specs) <= 39
       THEN /\ TheCall.ok
            /\ a.player \in DOMAIN game.pockets
            /\ game.pockets[a.player] = a.specs
            /\ \A other \in DOMAIN Pre.pockets \ {a.player} :
                   /\ other \in DOMAIN game.pockets
                   /\ game.pockets[other] = Pre.pockets[other]
            /\ DOMAIN game.pockets = DOMAIN Pre.pockets \cup {a.player}
            /\ [game EXCEPT !.pockets = Pre.pockets] = Pre
       ELSE ~TheCall.ok /\ game = Pre
\* A pocket of three pieces was replaced by one that sums to exactly 39.
C27_Witness ==
    /\ Did("setup_pocket")
    /\ TheCall.ok
    /\ total_score(TheCall.args.specs) = 39
    /\ TheCall.args.player \in DOMAIN Pre.pockets
    /\ Len(Pre.pockets[TheCall.args.player]) = 3
    /\ game.pockets[TheCall.args.player] # Pre.pockets[TheCall.args.player]

\* C30: end_turn flips the turn, lowers by one (not below zero) the stun of
\* exactly the pieces of the player whose turn ends, resets the move_stack
\* of exactly the next player's pieces on the board to the initial value for
\* their score, clears active_piece and action_taken, and changes nothing
\* else.
C30_EndTurn ==
    Did("end_turn")
    => /\ game.turn = 1 - Pre.turn
       /\ game.active_piece = None
       /\ ~game.action_taken
       /\ DOMAIN game.pieces = DOMAIN Pre.pieces
       /\ \A id \in DOMAIN Pre.pieces :
              LET p == Pre.pieces[id] IN
              game.pieces[id] =
                  [p EXCEPT
                     !.stun = IF p.owner # Pre.turn THEN @
                              ELSE IF @ >= 1 THEN @ - 1 ELSE 0,
                     !.move_stack =
                         IF p.owner = 1 - Pre.turn /\ IsSome(p.pos)
                         THEN initial_move_stack(score(p.kind)) ELSE @]
       /\ [game EXCEPT !.pieces = Pre.pieces, !.turn = Pre.turn,
                       !.active_piece = Pre.active_piece,
                       !.action_taken = Pre.action_taken] = Pre
\* A turn ended in which a piece had moved, with a stunned piece on each side
\* and a piece of the next player that had spent a move.
C30_Witness ==
    /\ Did("end_turn")
    /\ IsSome(Pre.active_piece)
    /\ \E id \in DOMAIN Pre.pieces :
          /\ Pre.pieces[id].owner = Pre.turn
          /\ Pre.pieces[id].stun > 0
          /\ game.pieces[id].stun < Pre.pieces[id].stun
    /\ \E id \in DOMAIN Pre.pieces :
          /\ Pre.pieces[id].owner # Pre.turn
          /\ Pre.pieces[id].stun > 0
    /\ \E id \in DOMAIN Pre.pieces :
          /\ Pre.pieces[id].owner # Pre.turn
          /\ game.pieces[id].move_stack # Pre.pieces[id].move_stack

\* A player owns a royal piece in a game.
OwnsRoyal(g, player) ==
    \E id \in DOMAIN g.pieces :
        g.pieces[id].is_royal /\ g.pieces[id].owner = player
\* The call made last was a move that captured a player's last royal piece.
LostLastRoyal(player) ==
    /\ \/ Did("move_piece") \/ Did("move_piece_by_legal_moves")
    /\ OwnsRoyal(Pre, player)
    /\ ~OwnsRoyal(game, player)
Winner(player) == IF player = 0 THEN "WhiteWins" ELSE "BlackWins"
\* check_victory reports Ongoing exactly while each player owns a royal
\* piece.
OngoingWhileBothRoyal ==
    check_victory(game) = "Ongoing"
    <=> (OwnsRoyal(game, 0) /\ OwnsRoyal(game, 1))
\* C28: check_victory returns Ongoing if and only if each player owns at
\* least one royal piece, and as soon as a player's last royal piece has
\* been captured, by any move type, it reports the other player as winner.
C28_Victory ==
    /\ OngoingWhileBothRoyal
    /\ \A player \in {0, 1} :
          LostLastRoyal(player) => check_victory(game) = Winner(1 - player)
\* C28 as the code has it: check_victory returns Ongoing if and only if each
\* player owns at least one royal piece, and as soon as a player's last
\* royal piece has been captured, by any move type, it reports the other
\* player as winner if that player still owns a royal piece, and BlackWins
\* if no royal piece is left on either side.
C28_VictoryOfARoyalSide ==
    /\ OngoingWhileBothRoyal
    /\ \A player \in {0, 1} :
          LostLastRoyal(player)
          => check_victory(game) =
                 IF OwnsRoyal(game, 1 - player) THEN Winner(1 - player)
                 ELSE "BlackWins"
\* Black's last royal piece was captured by a white piece that jumped and
\* caught it, while white still owns its king.
C28_Witness ==
    /\ Did("move_piece_by_legal_moves")
    /\ LostLastRoyal(1)
    /\ OwnsRoyal(game, 0)
    /\ TheCall.args.mv.move_type = "Jump"
    /\ Pre.turn = 0
    /\ check_victory(game) = "WhiteWins"

\* The calls of a turn that the rule of one action per turn is about.
MoveOps == {"move_piece", "move_piece_by_legal_moves"}
ActionOps == {"place_piece", "crown_piece", "disguise_piece", "apply_stun"}
IsTurnCall(c) == c.op \in MoveOps \cup ActionOps
TurnCalls == SelectSeq(log.turn, IsTurnCall)
\* The piece a move call moves, and the player a call acts for.
Mover(c) ==
    IF c.op = "move_piece" THEN c.args.piece_id
    ELSE c.pre.board[c.args.mv.from]
Actor(c) ==
    IF c.op = "move_piece_by_legal_moves"
    THEN c.pre.pieces[Mover(c)].owner
    ELSE c.args.player
\* C29: between two end_turn calls, through place_piece, move_piece,
\* move_piece_by_legal_moves, crown_piece, disguise_piece and apply_stun,
\* only the player to move changes the game, and the calls that succeed are
\* either exactly one non-move action or one or more moves of one single
\* piece: never an action together with a move, never two actions, never
\* moves of two different pieces.
C29_OneActionOrOnePiece ==
    /\ (IsSome(log.last) /\ IsTurnCall(TheCall))
       => IF TheCall.ok THEN Actor(TheCall) = Pre.turn ELSE game = Pre
    /\ \A n \in 1..Len(TurnCalls) : Actor(TurnCalls[n]) = TurnCalls[n].pre.turn
    /\ \/ Len(TurnCalls) <= 1
       \/ \A n \in 1..Len(TurnCalls) :
             /\ TurnCalls[n].op \in MoveOps
             /\ Mover(TurnCalls[n]) = Mover(TurnCalls[1])
\* A piece moved twice in one turn, and the same player's attempt to crown a
\* piece in that turn was refused.
C29_Witness ==
    /\ Len(TurnCalls) = 2
    /\ TurnCalls[1].op = "move_piece"
    /\ TurnCalls[2].op = "move_piece_by_legal_moves"
    /\ Did("crown_piece")
    /\ ~TheCall.ok
    /\ TheCall.args.player = Pre.turn
    /\ TheCall.args.piece_id \in DOMAIN Pre.pieces
    /\ Pre.pieces[TheCall.args.piece_id].owner = Pre.turn

\* The tags of a list that change something: a SetState tag, and a
\* Transition tag that names a built-in kind.
IsSetState(tag) == tag.tag_type = "SetState"
IsTransition(tag) ==
    /\ tag.tag_type = "Transition"
    /\ IsSome(tag.piece_name)
    /\ IsSome(kind_of_name(Unwrap(tag.piece_name)))
\* The game after the tags of a list were applied once each, in their order,
\* to the game g for the piece id: the piece has the kind of the last
\* Transition tag and the full move_stack of that kind, every key has the
\* value of its last SetState tag, and nothing else differs from g.
Tagged(g, id, tags) ==
    LET transitions == SelectSeq(tags, IsTransition)
        states == SelectSeq(tags, IsSetState)
        kind == Unwrap(kind_of_name(
                    Unwrap(transitions[Len(transitions)].piece_name)))
        keys == {states[n].key : n \in 1..Len(states)}
        LastOf(key) ==
            CHOOSE n \in 1..Len(states) :
                /\ states[n].key = key
                /\ \A k \in (n + 1)..Len(states) : states[k].key # key
    IN  [g EXCEPT
           !.pieces =
               IF transitions # << >> /\ id \in DOMAIN @
               THEN [@ EXCEPT
                       ![id].kind = kind,
                       ![id].move_stack = initial_move_stack(score(kind))]
               ELSE @,
           !.global_state =
               [key \in DOMAIN @ \cup keys |->
                   IF key \in keys THEN states[LastOf(key)].value
                   ELSE @[key]]]
\* The legal move of the last call, and the same move without its tags.
TheMove == TheCall.args.mv
Untagged == [TheMove EXCEPT !.tags = << >>]
\* C22: for every move committed through move_piece_by_legal_moves or
\* apply_action(Move), each tag of the legal move is applied exactly once,
\* in the order of the tag list, after the mover's position and stacks have
\* been updated; a rejected move applies no tag; one apply_action(Move) call
\* commits at most one legal move. A Transition tag that names no built-in
\* kind, or is applied for a mover that is no longer in the game, has no
\* effect.
C22_TagsAfterCommit ==
    /\ Did("move_piece_by_legal_moves")
       => IF TheCall.ok
          THEN /\ move_piece_by_legal_moves(Pre, Untagged).ok
               /\ game = Tagged(move_piece_by_legal_moves(Pre, Untagged).game,
                                Pre.board[TheMove.from], TheMove.tags)
          ELSE game = Pre
    /\ (Did("apply_action") /\ TheCall.args.action.type = "Move")
       => /\ Len(TheCall.out) <= 1
          /\ IF TheCall.out = << >> THEN game = Pre
             ELSE LET mv == TheCall.out[1] IN
                  /\ mv.to = TheCall.args.action.to
                  /\ game = Tagged(move_piece_by_legal_moves(
                                       Pre, [mv EXCEPT !.tags = << >>]).game,
                                   Pre.board[mv.from], mv.tags)
\* A piece took another one with a move that carries three tags: its
\* move_stack is the full stack of its new kind, and the key set twice has
\* the value set last.
C22_Witness ==
    /\ Did("move_piece_by_legal_moves")
    /\ TheCall.ok
    /\ TheMove.move_type = "Take"
    /\ Len(TheMove.tags) = 3
    /\ IsSetState(TheMove.tags[1])
    /\ Pre.pieces[Pre.board[TheMove.from]].kind = "King"
    /\ game.pieces[Pre.board[TheMove.from]].kind = "Knight"
    /\ game.pieces[Pre.board[TheMove.from]].move_stack = 3
    /\ move_piece_by_legal_moves(Pre, Untagged)
           .game.pieces[Pre.board[TheMove.from]].move_stack = 5
    /\ game.global_state["castled"] = 2

\* ------------------------------------------------------------ lexer claims
\* The statement the parsed script was written from.
Statement == Unwrap(log.last)
\* The variants of enum Token (lines 127-175).
TokenKinds ==
    { "TakeMove", "Move", "Take", "Catch", "Shift", "Jump", "Anchor",
      "Observe", "Peek", "Enemy", "Friendly", "Danger", "Bound", "Edge",
      "EdgeTop", "EdgeBottom", "EdgeLeft", "EdgeRight", "Corner",
      "CornerTopLeft", "CornerTopRight", "CornerBottomLeft",
      "CornerBottomRight", "PieceOn", "Check", "Piece", "IfState",
      "SetState", "SetStateReset", "Transition", "Repeat", "Do", "While",
      "Jmp", "Jne", "Label", "Not", "End", "OpenBrace", "CloseBrace",
      "Semicolon" }

\* C23: parse ends on every input without a panic, and the tokens it leaves
\* are tokens of the closed token set. parse panics on the scripts that have
\* "à" in the place of a word: read_word stops at the byte 0xA0, which is a
\* whitespace char, and slices the input inside the character.
C23_ParseNeverFails ==
    /\ phase # "panicked"
    /\ \A i \in DOMAIN tokens : tokens[i].k \in TokenKinds

\* The known words that take integer operands: the token kind, and the
\* places in the argument list of the operands that become the fields x and
\* y of the token (0 for no operand).
IntegerWords ==
    { [word |-> "take-move", kind |-> "TakeMove", x |-> 1, y |-> 2],
      [word |-> "move", kind |-> "Move", x |-> 1, y |-> 2],
      [word |-> "take", kind |-> "Take", x |-> 1, y |-> 2],
      [word |-> "catch", kind |-> "Catch", x |-> 1, y |-> 2],
      [word |-> "shift", kind |-> "Shift", x |-> 1, y |-> 2],
      [word |-> "jump", kind |-> "Jump", x |-> 1, y |-> 2],
      [word |-> "anchor", kind |-> "Anchor", x |-> 1, y |-> 2],
      [word |-> "observe", kind |-> "Observe", x |-> 1, y |-> 2],
      [word |-> "peek", kind |-> "Peek", x |-> 1, y |-> 2],
      [word |-> "enemy", kind |-> "Enemy", x |-> 1, y |-> 2],
      [word |-> "friendly", kind |-> "Friendly", x |-> 1, y |-> 2],
      [word |-> "danger", kind |-> "Danger", x |-> 1, y |-> 2],
      [word |-> "bound", kind |-> "Bound", x |-> 1, y |-> 2],
      [word |-> "edge", kind |-> "Edge", x |-> 1, y |-> 2],
      [word |-> "edge-top", kind |-> "EdgeTop", x |-> 1, y |-> 2],
      [word |-> "edge-bottom", kind |-> "EdgeBottom", x |-> 1, y |-> 2],
      [word |-> "edge-left", kind |-> "EdgeLeft", x |-> 1, y |-> 2],
      [word |-> "edge-right", kind |-> "EdgeRight", x |-> 1, y |-> 2],
      [word |-> "corner", kind |-> "Corner", x |-> 1, y |-> 2],
      [word |-> "corner-top-left", kind |-> "CornerTopLeft", x |-> 1, y |-> 2],
      [word |-> "corner-top-right", kind |-> "CornerTopRight", x |-> 1, y |-> 2],
      [word |-> "corner-bottom-left", kind |-> "CornerBottomLeft", x |-> 1, y |-> 2],
      [word |-> "corner-bottom-right", kind |-> "CornerBottomRight", x |-> 1, y |-> 2],
      [word |-> "piece-on", kind |-> "PieceOn", x |-> 2, y |-> 3],
      [word |-> "if-state", kind |-> "IfState", x |-> 2, y |-> 0],
      [word |-> "set-state", kind |-> "SetState", x |-> 2, y |-> 0],
      [word |-> "repeat", kind |-> "Repeat", x |-> 1, y |-> 0] }
\* The statement has a known word that takes integer operands, a closed
\* argument list that holds them all, and its token has been produced.
HasOperands(e) ==
    /\ log.last # None
    /\ e.word = Str(Statement.word)
    /\ Statement.parens /\ Statement.closed
    /\ Len(Statement.list) >= e.x /\ Len(Statement.list) >= e.y
    /\ Len(tokens) > Statement.frame.tokens
\* The token of the statement keeps the kind of its word, and its field is
\* otherwise wherever the operand is not an integer.
Coerced(e, otherwise) ==
    LET token == tokens[Statement.frame.tokens + 1] IN
    /\ token.k = e.kind
    /\ e.x # 0 /\ ~Statement.list[e.x].int => token.x = otherwise
    /\ e.y # 0 /\ ~Statement.list[e.y].int => token.y = otherwise
ChainBase(k) ==
    LET semis == {j \in 1..(k - 1) : PassesSemi(j)} IN
    IF semis = {} THEN 0 ELSE Len(Post(Max(semis)).activations)
\* C38: a jump that returns leaves the activation list as it was, or puts one
\* Jump in the place of a Take at the end of the list that was emitted in the
\* chain of the jump. `take(1,0) jump(1,0)` with enemies on both squares
\* loses the Take and emits nothing.
C38_JumpRemovesOnlyWhatItReplaces ==
    \A k \in Steps :
        (Dispatched(k, "Jump") /\ ~PanicsAt(k))
        => LET pre == trace[k].pre.activations
               post == Post(k).activations
           IN  \/ post = pre
               \/ /\ Len(pre) > ChainBase(k)
                  /\ Last(pre).move_type = "Take"
                  /\ Len(post) = Len(pre)
                  /\ Front(post) = Front(pre)
                  /\ Last(post).move_type = "Jump"

\* ------------------------------------------- C31, C39: the built-in scripts
\* The call get_legal_moves made for a piece of this kind has run its script.
Ran(kind) ==
    /\ game # NoGame
    /\ phase = "listed"
    /\ acting \in DOMAIN game.pieces
    /\ can_move(game.pieces[acting])
    /\ effective_kind(game.pieces[acting]) = kind
\* C31: every destination of a TempestRook is one of its four diagonal
\* neighbours, or lies in the row or the column of a diagonal neighbour that
\* was empty when the moves were generated, further from the piece than that
\* neighbour; so none lies in the piece's own row or column, and a diagonal
\* step that is blocked or captures gives no slide squares.
C31_TempestRookDestinations ==
    Ran("TempestRook")
    => \A i \in 1..Len(activations) :
          LET dx == activations[i].dx
              dy == activations[i].dy
              Via(sx, sy) ==
                  /\ is_empty(board, board.piece_x + sx, board.piece_y + sy)
                  /\ \/ dy = sy /\ dx * sx > 1
                     \/ dx = sx /\ dy * sy > 1
          IN  /\ dx # 0
              /\ dy # 0
              /\ \/ dx \in {-1, 1} /\ dy \in {-1, 1}
                 \/ \E sx \in {-1, 1}, sy \in {-1, 1} : Via(sx, sy)

\* C39: execute on a built-in script does not panic and its loop ends
\* before it has used up the MaxEngineSteps iterations followed here: a call
\* that is running has iterations left or has reached the end of the script.
C39_BuiltinScriptsTerminate ==
    game # NoGame
    => /\ phase # "panicked"
       /\ phase = "running"
          => (pc >= Len(tokens) \/ Len(trace) < MaxEngineSteps)
\* The script of the Experiment piece has returned after its do/while loop
\* went round, its peek held and a jne was dispatched.
C39_Witness ==
    /\ Ran("Experiment")
    /\ \E k \in Steps : Dispatched(k, "Jne")
    /\ \E k \in Steps : Dispatched(k, "While") /\ trace[k].pre.last_value
    /\ Len(activations) > 2

\* --------------------------------------------- C32-C36, C40: the match played
\* C32: a move that get_legal_moves returned for a piece of the player to
\* move, before any action of the turn and with no other piece active, is
\* accepted by move_piece_by_legal_moves.
C32_GeneratedMovesAreAccepted ==
    (/\ Did("move_piece_by_legal_moves")
     /\ Pre.pieces[TheCall.args.piece_id].owner = Pre.turn
     /\ ~Pre.action_taken
     /\ Pre.active_piece \in {None, Some(TheCall.args.piece_id)})
    => TheCall.ok

\* C33: the board maps a square to an id exactly when the piece table holds
\* a piece of that id whose pos is the square; so no id is on two squares.
C33_BoardAndPiecesAgree ==
    /\ \A sq \in DOMAIN game.board :
          /\ game.board[sq] \in DOMAIN game.pieces
          /\ game.pieces[game.board[sq]].pos = Some(sq)
    /\ \A id \in DOMAIN game.pieces :
          IsSome(game.pieces[id].pos)
          => /\ Unwrap(game.pieces[id].pos) \in DOMAIN game.board
             /\ game.board[Unwrap(game.pieces[id].pos)] = id

\* C34: no piece of the match has a negative stun or a negative move_stack.
C34_StacksNotNegative ==
    \A id \in DOMAIN game.pieces :
        game.pieces[id].stun >= 0 /\ game.pieces[id].move_stack >= 0

\* C35: a committed legal move without Transition tags leaves the mover with
\* one move less when no piece was captured, and with one move less plus the
\* moves of the captured piece when one was.
C35_MoveCostsOne ==
    (/\ Did("move_piece_by_legal_moves")
     /\ TheCall.ok
     /\ TheCall.args.piece_id \in DOMAIN game.pieces
     /\ \A i \in 1..Len(TheCall.args.mv.tags) :
           TheCall.args.mv.tags[i].tag_type # "Transition")
    => LET id == TheCall.args.piece_id
           old == Pre.pieces[id].move_stack
           victims == DOMAIN Pre.pieces \ DOMAIN game.pieces
       IN  game.pieces[id].move_stack =
               IF victims = {} THEN old - 1
               ELSE old - 1 + Pre.pieces[CHOOSE v \in victims : TRUE].move_stack

\* C36: every piece of the match stands on a square of the 8x8 board.
C36_PiecesOnTheBoard ==
    /\ \A sq \in DOMAIN game.board : is_valid(sq)
    /\ \A id \in DOMAIN game.pieces :
          IsSome(game.pieces[id].pos) => is_valid(Unwrap(game.pieces[id].pos))

\* C40: Game::move_piece returns true exactly when its call committed a move
\* from `from` to `to`, and leaves the game as it was when it committed none.
C40_TrueIffCommitted ==
    Did("Game.move_piece")
    => /\ TheCall.out.result <=> TheCall.out.committed # << >>
       /\ TheCall.out.committed = << >> => game = Pre

\* ------------------------------------------------------ C37: rejected moves
\* C37: a call of move_piece or move_piece_by_legal_moves for a move that the
\* validation refuses (no piece on the from square of the legal move, or
\* can_move_piece fails: wrong turn, action taken, another piece active,
\* unknown or foreign piece, stunned or exhausted piece, target not fitting
\* the move type) returns an error and leaves the game as it was.
C37_RejectedMoveChangesNothing ==
    /\ (/\ Did("move_piece")
        /\ ~can_move_piece(Pre, TheCall.args.player, TheCall.args.piece_id,
                           TheCall.args.to, TheCall.args.move_type))
       => ~TheCall.ok /\ game = Pre
    /\ Did("move_piece_by_legal_moves")
       => LET mv == TheCall.args.mv
              refused ==
                  IF mv.from \notin DOMAIN Pre.board THEN TRUE
                  ELSE IF Pre.board[mv.from] \notin DOMAIN Pre.pieces THEN TRUE
                  ELSE ~can_move_piece(Pre,
                                       Pre.pieces[Pre.board[mv.from]].owner,
                                       Pre.board[mv.from], mv.to, mv.move_type)
          IN  refused => ~TheCall.ok /\ game = Pre
\* A move of a second piece of the player to move, after a first piece has
\* moved in the same turn, has been refused; the piece could move and the
\* target was empty.
C37_Witness ==
    /\ Did("move_piece")
    /\ ~TheCall.ok
    /\ game = Pre
    /\ TheCall.args.move_type = "Move"
    /\ TheCall.args.to \notin DOMAIN Pre.board
    /\ TheCall.args.piece_id \in DOMAIN Pre.pieces
    /\ Pre.turn = TheCall.args.player
    /\ Pre.pieces[TheCall.args.piece_id].owner = Pre.turn
    /\ can_move(Pre.pieces[TheCall.args.piece_id])
    /\ ~Pre.action_taken
    /\ IsSome(Pre.active_piece)
    /\ Unwrap(Pre.active_piece) # TheCall.args.piece_id

=============================================================================
